---- MODULE Spec2Model ----
(***************************************************************************)
(* PDF context extraction of agent_service/app/services/pdf_text_service.py, *)
(* the streamed run of services/run_agent_service.py and the markdown stream *)
(* of orchestrators/headstart_orchestrator.py.                               *)
(* Texts are sequences of characters; a character is a one-character        *)
(* string, or a named atom for a character that is not printable ASCII.     *)
(* Scores are integers in thousandths (1.7 is 1700): every score of the     *)
(* program is rounded to three decimals.                                    *)
(***************************************************************************)
EXTENDS Integers, Sequences, FiniteSets, TLC

VARIABLES
    nText, nOut, nPrev, nPass,         \* SpecNorm: the normaliser on one page text
    qText, qResult, qDone,             \* SpecOcr: the quality classifier on one text
    scText, scTypes, scScore, scDone,  \* SpecScore: the scorer on one signal
    mIn, mLimit, mOut, mDone,          \* SpecMerge: the merger on one signal list
    dKinds, dPages, dOut, dDone,       \* SpecDenoise: the denoiser on one document
    vIn, vOut, vDone,                  \* SpecVisual: a text recovery on one input
    \* SpecRun: stream_run_agent_workflow on one request
    rPc,               \* the statement the generator is at
    rEvents,           \* the events yielded so far
    rChunks,           \* chunks
    rGuide,            \* guide_markdown
    rExc,              \* the exception raised inside the try, "" for none
    \* SpecStream: stream_headstart_agent_markdown on one request
    sPc,               \* the statement the generator is at
    sYielded,          \* the texts yielded so far, with where each came from
    sStreamed,         \* streamed_text
    sHas,              \* has_streamed_content
    sReceived,         \* the provider chunks received
    sMarkdown,         \* markdown
    sStart,            \* start of the chunking loop
    \* Spec: extract_pdf_context on one request
    pdf_text,          \* req.pdf_text
    pdf_files,         \* the file names of req.pdf_files
    collect_visual,    \* _visual_signals_enabled()
    pc,                \* "file", "page", "finish", "done" or "raised"
    file_index,        \* the attachment the loop is at
    page_count,        \* the pages of the open document
    pages_read,        \* the pages opened so far in the request
    pages,             \* the ExtractedPage list of the open document
    page_log,          \* per page, what the parser and the OCR engine gave,
                       \* whether an annotation raised, where the page raised
    file_log,          \* per attachment handled, what its extraction gave
    doc_signals,       \* visual_signals of _extract_pages_and_visual_signals
    normalized_pages,  \* the denoised page texts of the last document
    doc_output,        \* what extract_pdf_context_from_pdf_bytes returned last
    parts,             \* parts of extract_pdf_context
    visual_signals,    \* visual_signals of extract_pdf_context
    dump_file,         \* the content of pdf_extracted_text.txt
    result             \* what extract_pdf_context returned

normVars == <<nText, nOut, nPrev, nPass>>
ocrVars == <<qText, qResult, qDone>>
scoreVars == <<scText, scTypes, scScore, scDone>>
mergeVars == <<mIn, mLimit, mOut, mDone>>
denoiseVars == <<dKinds, dPages, dOut, dDone>>
pipeVars ==
    <<pdf_text, pdf_files, collect_visual, pc, file_index, page_count, pages_read,
      pages, page_log, file_log, doc_signals, normalized_pages, doc_output,
      parts, visual_signals, dump_file, result>>
visualVars == <<vIn, vOut, vDone>>
runVars == <<rPc, rEvents, rChunks, rGuide, rExc>>
streamVars == <<sPc, sYielded, sStreamed, sHas, sReceived, sMarkdown, sStart>>
serviceVars == <<visualVars, runVars, streamVars>>
vars == <<normVars, ocrVars, scoreVars, mergeVars, denoiseVars, pipeVars, serviceVars>>

------------------------------------------------------------------------------
(* Characters and the Python character classes the service relies on.       *)

LF == "\n"
CR == "\r"
TAB == "\t"
SP == " "
NBSP == "U+00A0"
E_ACUTE == "U+00E9"
BULLET == "U+2022"
ELLIPSIS == "U+2026"

UpperSeq == <<"A","B","C","D","E","F","G","H","I","J","K","L","M",
              "N","O","P","Q","R","S","T","U","V","W","X","Y","Z">>
LowerSeq == <<"a","b","c","d","e","f","g","h","i","j","k","l","m",
              "n","o","p","q","r","s","t","u","v","w","x","y","z">>
DigitSeq == <<"0","1","2","3","4","5","6","7","8","9">>

\* The characters of the model in code-point order (Python compares strings
\* by code point).
CharOrder ==
    <<TAB, LF, CR, SP, "!", "#", "$", "%", ")", "*", "-", ".">>
    \o DigitSeq \o <<":", "?", "@">> \o UpperSeq \o <<"_">> \o LowerSeq
    \o <<"|", NBSP, E_ACUTE, BULLET, ELLIPSIS>>

Range(s) == {s[i] : i \in 1..Len(s)}
AsciiUpper == Range(UpperSeq)
AsciiLower == Range(LowerSeq)
Digits == Range(DigitSeq)

Ord(c) == CHOOSE i \in 1..Len(CharOrder) : CharOrder[i] = c

\* str.isspace / regex \s
IsSpace(c) == c \in {SP, TAB, LF, CR, NBSP}
\* the line boundaries of str.splitlines
IsLineBreak(c) == c \in {LF, CR}
\* regex \d
IsDigit(c) == c \in Digits
\* regex [A-Za-z0-9]
IsAsciiAlnum(c) == c \in AsciiUpper \cup AsciiLower \cup Digits
\* str.isalnum
IsAlnum(c) == IsAsciiAlnum(c) \/ c = E_ACUTE
\* regex \w
IsWordChar(c) == IsAlnum(c) \/ c = "_"
\* str.lower, per character
ToLower(c) ==
    IF c \in AsciiUpper
    THEN LowerSeq[CHOOSE i \in 1..Len(UpperSeq) : UpperSeq[i] = c]
    ELSE c

------------------------------------------------------------------------------
(* String helpers: the Python built-ins and regex substitutions used.        *)

SetMin(S) == CHOOSE x \in S : \A y \in S : x <= y
SetMax(S) == CHOOSE x \in S : \A y \in S : x >= y

Lower(s) == [i \in 1..Len(s) |-> ToLower(s[i])]

\* the first and the last index of s whose character is not in the class, 0
\* when there is none
FirstOutside(s, InClass(_)) ==
    IF \A i \in 1..Len(s) : InClass(s[i]) THEN 0
    ELSE CHOOSE i \in 1..Len(s) :
            ~InClass(s[i]) /\ \A j \in 1..(i - 1) : InClass(s[j])
LastOutside(s, InClass(_)) ==
    IF \A i \in 1..Len(s) : InClass(s[i]) THEN 0
    ELSE Len(s) + 1 - (CHOOSE k \in 1..Len(s) :
            /\ ~InClass(s[Len(s) + 1 - k])
            /\ \A j \in 1..(k - 1) : InClass(s[Len(s) + 1 - j]))

\* s.strip(chars-in-set)
StripSet(s, T) ==
    LET InT(c) == c \in T
        first == FirstOutside(s, InT)
    IN  IF first = 0 THEN <<>> ELSE SubSeq(s, first, LastOutside(s, InT))

\* s.strip()
Strip(s) ==
    LET first == FirstOutside(s, IsSpace)
    IN  IF first = 0 THEN <<>> ELSE SubSeq(s, first, LastOutside(s, IsSpace))

\* s.rstrip()
RStrip(s) ==
    LET last == LastOutside(s, IsSpace)
    IN  IF last = 0 THEN <<>> ELSE SubSeq(s, 1, last)

\* sub in s
Contains(s, sub) ==
    \E i \in 0..(Len(s) - Len(sub)) : SubSeq(s, i + 1, i + Len(sub)) = sub

Indices(s) == [i \in 1..Len(s) |-> i]

\* A line boundary of str.splitlines ends at i: LF, or CR not followed by LF
\* (CR LF is one boundary).
EndsLineBreak(s, i) ==
    s[i] = LF \/ (s[i] = CR /\ ~(i < Len(s) /\ s[i + 1] = LF))

\* s.splitlines(): no trailing empty line after a final line break
SplitLines(s) ==
    LET IsEnd(i) == EndsLineBreak(s, i)
        ends == SelectSeq(Indices(s), IsEnd)
        StartOf(e) == IF s[e] = LF /\ e > 1 /\ s[e - 1] = CR THEN e - 1 ELSE e
        From(k) == IF k = 1 THEN 1 ELSE ends[k - 1] + 1
        whole == [k \in 1..Len(ends) |-> SubSeq(s, From(k), StartOf(ends[k]) - 1)]
        rest == SubSeq(s, From(Len(ends) + 1), Len(s))
    IN  IF rest = <<>> THEN whole ELSE Append(whole, rest)

RECURSIVE Join(_, _)
\* sep.join(items)
Join(items, sep) ==
    IF items = <<>> THEN <<>>
    ELSE IF Len(items) = 1 THEN items[1]
    ELSE items[1] \o sep \o Join(Tail(items), sep)

\* re.sub(r"<class>+", " ", s): each maximal run of the class becomes one space
CollapseRuns(s, InClass(_)) ==
    LET Kept(i) == ~(InClass(s[i]) /\ i > 1 /\ InClass(s[i - 1]))
        idx == SelectSeq(Indices(s), Kept)
    IN  [j \in 1..Len(idx) |-> IF InClass(s[idx[j]]) THEN SP ELSE s[idx[j]]]

IsSpaceOrTab(c) == c \in {SP, TAB}

\* re.sub(r"\s+", " ", s)
CollapseWhitespace(s) == CollapseRuns(s, IsSpace)
\* re.sub(r"[ \t]+", " ", s)
CollapseSpacesTabs(s) == CollapseRuns(s, IsSpaceOrTab)

\* text.replace("\r\n", "\n").replace("\r", "\n").replace(" ", " ")
UnifyLineEndings(s) ==
    LET Kept(i) == ~(s[i] = CR /\ i < Len(s) /\ s[i + 1] = LF)
        idx == SelectSeq(Indices(s), Kept)
    IN  [j \in 1..Len(idx) |->
            IF s[idx[j]] = CR THEN LF
            ELSE IF s[idx[j]] = NBSP THEN SP
            ELSE s[idx[j]]]

\* a variant that deletes every hyphen before a line break
DehyphenateAnyBreak(s) ==
    LET At(i) == s[i] = "-" /\ i < Len(s) /\ s[i + 1] = LF
        Kept(i) == ~(At(i) \/ (i > 1 /\ At(i - 1)))
        idx == SelectSeq(Indices(s), Kept)
    IN  [j \in 1..Len(idx) |-> s[idx[j]]]

\* the regex (?<=\w)-\n(?=\w) matches at i
HyphenBreakAt(s, i) ==
    /\ s[i] = "-"
    /\ i > 1 /\ IsWordChar(s[i - 1])
    /\ i + 2 <= Len(s) /\ s[i + 1] = LF /\ IsWordChar(s[i + 2])

\* re.sub(r"(?<=\w)-\n(?=\w)", "", s): two matches never touch, since the
\* character after a match is a word character and not a hyphen
Dehyphenate(s) ==
    LET Kept(i) == ~(HyphenBreakAt(s, i) \/ (i > 1 /\ HyphenBreakAt(s, i - 1)))
        idx == SelectSeq(Indices(s), Kept)
    IN  [j \in 1..Len(idx) |-> s[idx[j]]]

------------------------------------------------------------------------------
(* Text Normalizer                                                           *)

\* str.isupper: at least one cased character and no lower-case one
IsUpperStr(s) ==
    /\ \E i \in 1..Len(s) : s[i] \in AsciiUpper
    /\ \A i \in 1..Len(s) : s[i] \notin AsciiLower \cup {E_ACUTE}

\* re.match(r"^\d+[.)]\s+", s)
MatchesNumberedItem(s) ==
    \E k \in 1..Len(s) :
        /\ \A i \in 1..k : IsDigit(s[i])
        /\ k + 2 <= Len(s)
        /\ s[k + 1] \in {".", ")"}
        /\ IsSpace(s[k + 2])

_looks_like_structural_line(line) ==
    LET s == Strip(line)
    IN  IF s = <<>> THEN FALSE
        ELSE IF Len(s) >= 2 /\ s[1] \in {"-", "*", BULLET} /\ IsSpace(s[2]) THEN TRUE
        ELSE IF MatchesNumberedItem(s) THEN TRUE
        ELSE IF s[Len(s)] = ":" /\ Len(s) <= 90 THEN TRUE
        ELSE IF \E i \in 1..Len(s) : s[i] = "|" THEN TRUE
        ELSE IF \E i \in 2..(Len(s) - 2) : IsSpace(s[i]) /\ IsSpace(s[i + 1]) THEN TRUE
        ELSE IF IsUpperStr(s) /\ 3 <= Len(s) /\ Len(s) <= 80 THEN TRUE
        ELSE FALSE

\* a variant that leaves the buffered lines as they are
FlushParagraphPerLine(out, buf) == out \o buf

\* Flush the paragraph buffer into the output lines.
FlushParagraph(out, buf) ==
    IF buf = <<>> THEN out ELSE Append(out, Join(buf, <<SP>>))

RECURSIVE UnwrapLines(_, _, _, _)
\* the first loop of _unwrap_hard_line_breaks and the flush after it
UnwrapLines(lines, i, out, buf) ==
    IF i > Len(lines) THEN FlushParagraph(out, buf)
    ELSE LET line == Strip(lines[i])
         IN  IF line = <<>>
             THEN LET flushed == FlushParagraph(out, buf)
                      next == IF flushed # <<>> /\ flushed[Len(flushed)] # <<>>
                              THEN Append(flushed, <<>>) ELSE flushed
                  IN  UnwrapLines(lines, i + 1, next, <<>>)
             ELSE IF _looks_like_structural_line(line)
             THEN UnwrapLines(lines, i + 1, Append(FlushParagraph(out, buf), line), <<>>)
             ELSE UnwrapLines(lines, i + 1, out, Append(buf, line))

RECURSIVE SqueezeBlanks(_, _, _, _)
\* the second loop of _unwrap_hard_line_breaks
SqueezeBlanks(out, i, prevBlank, acc) ==
    IF i > Len(out) THEN acc
    ELSE IF out[i] = <<>>
         THEN SqueezeBlanks(out, i + 1, TRUE,
                            IF prevBlank THEN acc ELSE Append(acc, <<>>))
    ELSE SqueezeBlanks(out, i + 1, FALSE,
                       Append(acc, Strip(CollapseSpacesTabs(out[i]))))

_unwrap_hard_line_breaks(text) ==
    Strip(Join(SqueezeBlanks(UnwrapLines(SplitLines(text), 1, <<>>, <<>>),
                             1, FALSE, <<>>),
               <<LF>>))

_normalize_page_text(text) ==
    IF text = <<>> THEN <<>>
    ELSE Strip(_unwrap_hard_line_breaks(Dehyphenate(UnifyLineEndings(text))))

------------------------------------------------------------------------------
(* Quality Classifier                                                        *)

MIN_NATIVE_TEXT_CHARS == 48
MIN_NATIVE_WORDS == 8
\* MIN_ALNUM_RATIO = 0.45 and MAX_SYMBOL_RATIO = 0.40, in hundredths
MIN_ALNUM_RATIO_PCT == 45
MAX_SYMBOL_RATIO_PCT == 40

Count(s, P(_)) == Cardinality({i \in 1..Len(s) : P(s[i])})

\* len(re.findall(r"[A-Za-z0-9]{2,}", text)): the maximal runs of at least two
\* ASCII letters or digits
CountWords(s) ==
    Cardinality({i \in 1..Len(s) :
        /\ IsAsciiAlnum(s[i])
        /\ (i = 1 \/ ~IsAsciiAlnum(s[i - 1]))
        /\ i < Len(s) /\ IsAsciiAlnum(s[i + 1])})

NotSpace(c) == ~IsSpace(c)
\* a variant that counts the percent sign only
IsPercentSign(c) == c = "%"
IsSymbol(c) == ~IsSpace(c) /\ ~IsAlnum(c)

\* The ratios stay fractions (num over chars): alnum / chars < 0.45 is
\* 100 * alnum < 45 * chars. Without characters the code sets the ratios to
\* 0.0 and 1.0, here 0/1 and 1/1.
_compute_text_quality(text) ==
    LET chars == Count(text, NotSpace)
        alnum == Count(text, IsAlnum)
        symbols == Count(text, IsSymbol)
    IN  [chars |-> chars,
         words |-> CountWords(text),
         alnum_num |-> IF chars > 0 THEN alnum ELSE 0,
         symbol_num |-> IF chars > 0 THEN symbols ELSE 1,
         ratio_den |-> IF chars > 0 THEN chars ELSE 1]

_should_ocr_page(native_text) ==
    LET metrics == _compute_text_quality(native_text)
    IN  IF metrics.chars < MIN_NATIVE_TEXT_CHARS THEN TRUE
        ELSE IF metrics.words < MIN_NATIVE_WORDS THEN TRUE
        ELSE IF 100 * metrics.alnum_num < MIN_ALNUM_RATIO_PCT * metrics.ratio_den THEN TRUE
        ELSE IF 100 * metrics.symbol_num > MAX_SYMBOL_RATIO_PCT * metrics.ratio_den THEN TRUE
        ELSE FALSE

------------------------------------------------------------------------------
(* Cross-Page Denoiser                                                       *)

HEADER_FOOTER_SAMPLE_LINES == 2
\* HEADER_FOOTER_REPEAT_RATIO = 0.60, in hundredths
HEADER_FOOTER_REPEAT_PCT == 60
HEADER_FOOTER_MIN_PAGES == 3
MIN_CANDIDATE_LEN == 4
MAX_CANDIDATE_LEN == 140

\* re.sub(r"\d+", "#", s)
ReplaceDigitRuns(s) ==
    LET Kept(i) == ~(IsDigit(s[i]) /\ i > 1 /\ IsDigit(s[i - 1]))
        idx == SelectSeq(Indices(s), Kept)
    IN  [j \in 1..Len(idx) |-> IF IsDigit(s[idx[j]]) THEN "#" ELSE s[idx[j]]]

_normalize_match_line(line) ==
    StripSet(CollapseWhitespace(ReplaceDigitRuns(Lower(line))),
             {SP, ".", ":", "-", "|", "_"})

NonBlank(ln) == Strip(ln) # <<>>

\* [ln.strip() for ln in text.splitlines() if ln.strip()]
NonBlankLines(text) ==
    LET kept == SelectSeq(SplitLines(text), NonBlank)
    IN  [i \in 1..Len(kept) |-> Strip(kept[i])]

\* lines[:HEADER_FOOTER_SAMPLE_LINES] + lines[-HEADER_FOOTER_SAMPLE_LINES:]
SampledLines(lines) ==
    LET n == Len(lines)
        k == HEADER_FOOTER_SAMPLE_LINES
    IN  SubSeq(lines, 1, IF n < k THEN n ELSE k)
        \o SubSeq(lines, IF n < k THEN 1 ELSE n - k + 1, n)

\* a variant that takes every sampled line, whatever its length
PagePatternsAnyLength(text) ==
    LET sampled == SampledLines(NonBlankLines(text))
    IN  {_normalize_match_line(sampled[i]) : i \in 1..Len(sampled)} \ {<<>>}

\* a variant that measures the pattern, not the line
PagePatternsBySignature(text) ==
    LET sampled == SampledLines(NonBlankLines(text))
    IN  {p \in {_normalize_match_line(sampled[i]) : i \in 1..Len(sampled)} :
            MIN_CANDIDATE_LEN <= Len(p) /\ Len(p) <= MAX_CANDIDATE_LEN}

\* the set `patterns` of one page, without the empty pattern the tally skips
PagePatterns(text) ==
    LET sampled == SampledLines(NonBlankLines(text))
    IN  {_normalize_match_line(sampled[i]) :
            i \in {j \in 1..Len(sampled) :
                      /\ MIN_CANDIDATE_LEN <= Len(Strip(sampled[j]))
                      /\ Len(Strip(sampled[j])) <= MAX_CANDIDATE_LEN}}
        \ {<<>>}

\* a variant without the floor of HEADER_FOOTER_MIN_PAGES
MinOccurrencesNoFloor(total_pages) ==
    (total_pages * HEADER_FOOTER_REPEAT_PCT + 99) \div 100

\* max(HEADER_FOOTER_MIN_PAGES, math.ceil(total_pages * HEADER_FOOTER_REPEAT_RATIO))
MinOccurrences(total_pages) ==
    LET ratio == (total_pages * HEADER_FOOTER_REPEAT_PCT + 99) \div 100
    IN  IF ratio > HEADER_FOOTER_MIN_PAGES THEN ratio ELSE HEADER_FOOTER_MIN_PAGES

\* pattern_counts[pattern]: the pages whose pattern set holds the pattern
PatternCount(patterns, pattern) ==
    Cardinality({i \in DOMAIN patterns : pattern \in patterns[i]})

\* a variant that asks for more than min_occurrences pages
RepeatedPatternsStrict(page_texts) ==
    LET patterns == [i \in 1..Len(page_texts) |-> PagePatterns(page_texts[i])]
    IN  {p \in UNION {patterns[i] : i \in DOMAIN patterns} :
            PatternCount(patterns, p) > MinOccurrences(Len(page_texts))}

\* repeated_patterns
RepeatedPatterns(page_texts) ==
    LET patterns == [i \in 1..Len(page_texts) |-> PagePatterns(page_texts[i])]
    IN  {p \in UNION {patterns[i] : i \in DOMAIN patterns} :
            PatternCount(patterns, p) >= MinOccurrences(Len(page_texts))}

\* the lines of one page that survive, right-stripped
KeptLines(text, repeated) ==
    LET lines == SplitLines(text)
        NotRepeated(ln) == _normalize_match_line(ln) \notin repeated
        kept == SelectSeq(lines, NotRepeated)
    IN  [i \in 1..Len(kept) |-> RStrip(kept[i])]

_remove_repeated_headers_and_footers(page_texts) ==
    IF Len(page_texts) < HEADER_FOOTER_MIN_PAGES THEN page_texts
    ELSE LET repeated == RepeatedPatterns(page_texts)
         IN  IF repeated = {} THEN page_texts
             ELSE [i \in 1..Len(page_texts) |->
                      Strip(Join(KeptLines(page_texts[i], repeated), <<LF>>))]

------------------------------------------------------------------------------
(* Signal Scorer & Merger                                                    *)

MAX_VISUAL_SIGNALS_PER_FILE == 40
MAX_VISUAL_SIGNAL_TEXT_LEN == 140

\* the signal types in sorted() order; "note" stands for an unrecognised type
TypeOrder ==
    <<"bold", "colored_text", "highlight", "note", "squiggly", "strikeout", "underline">>
SignalTypes == Range(TypeOrder)

\* SIGNAL_BASE_SCORES.get(t, 0.2), in thousandths
BaseScore(t) ==
    CASE t = "highlight" -> 1000
      [] t = "underline" -> 900
      [] t = "strikeout" -> 600
      [] t = "squiggly" -> 700
      [] t = "bold" -> 450
      [] t = "colored_text" -> 350
      [] OTHER -> 200

RECURSIVE SumBaseScores(_)
SumBaseScores(types) ==
    IF types = <<>> THEN 0 ELSE BaseScore(Head(types)) + SumBaseScores(Tail(types))

\* s.lstrip(), the \s* of a regex
LStrip(s) ==
    LET first == FirstOutside(s, IsSpace)
    IN  IF first = 0 THEN <<>> ELSE SubSeq(s, first, Len(s))

HasPrefix(s, pre) == Len(s) >= Len(pre) /\ SubSeq(s, 1, Len(pre)) = pre
DropPrefix(s, n) == SubSeq(s, n + 1, Len(s))

\* the tail \d+[.)]?$ of QUESTION_TOKEN_RE
IsNumberToken(t) ==
    LET body == IF t # <<>> /\ t[Len(t)] \in {".", ")"}
                THEN SubSeq(t, 1, Len(t) - 1) ELSE t
    IN  body # <<>> /\ \A i \in 1..Len(body) : IsDigit(body[i])

QuestionWord == <<"q", "u", "e", "s", "t", "i", "o", "n">>

\* QUESTION_TOKEN_RE.match(s): ^(?:q(?:uestion)?\s*)?\d+[.)]?$, ignoring case
MatchesQuestionToken(s) ==
    LET t == Lower(s)
    IN  \/ IsNumberToken(t)
        \/ HasPrefix(t, QuestionWord) /\ IsNumberToken(LStrip(DropPrefix(t, Len(QuestionWord))))
        \/ HasPrefix(t, <<"q">>) /\ IsNumberToken(LStrip(DropPrefix(t, 1)))

\* re.search(r"\bquestion\s+\d+\b", s, flags=re.IGNORECASE)
ContainsQuestionN(s) ==
    LET t == Lower(s)
        w == Len(QuestionWord)
    IN  \E i \in 1..(Len(t) - w - 1) :
            /\ SubSeq(t, i, i + w - 1) = QuestionWord
            /\ (i = 1 \/ ~IsWordChar(t[i - 1]))
            /\ \E j \in (i + w + 1)..Len(t) :
                /\ \A x \in (i + w)..(j - 1) : IsSpace(t[x])
                /\ \E k \in j..Len(t) :
                    /\ \A x \in j..k : IsDigit(t[x])
                    /\ (k = Len(t) \/ ~IsWordChar(t[k + 1]))

HasDigit(s) == \E i \in 1..Len(s) : IsDigit(s[i])

\* a variant that caps the score at 1.7 before the text boosts are added
ScoreCappedBeforeBoosts(text, signal_types) ==
    LET base == SumBaseScores(signal_types)
        multi == IF Len(signal_types) > 1 THEN 100 * (Len(signal_types) - 1) ELSE 0
        s == Strip(text)
        question == IF MatchesQuestionToken(s) THEN 350
                    ELSE IF ContainsQuestionN(s) THEN 250
                    ELSE 0
        short == IF Len(s) <= 12 /\ HasDigit(s) THEN 150 ELSE 0
        capped == IF base + multi < 1700 THEN base + multi ELSE 1700
    IN  capped + question + short

\* a variant that adds the "question N" boost on top of the token boost
ScoreBothQuestionBoosts(text, signal_types) ==
    LET base == SumBaseScores(signal_types)
        multi == IF Len(signal_types) > 1 THEN 100 * (Len(signal_types) - 1) ELSE 0
        s == Strip(text)
        question == (IF MatchesQuestionToken(s) THEN 350 ELSE 0)
                    + (IF ContainsQuestionN(s) THEN 250 ELSE 0)
        short == IF Len(s) <= 12 /\ HasDigit(s) THEN 150 ELSE 0
        score == base + multi + question + short
    IN  IF score < 1700 THEN score ELSE 1700

_score_visual_signal(text, signal_types) ==
    LET base == SumBaseScores(signal_types)
        multi == IF Len(signal_types) > 1 THEN 100 * (Len(signal_types) - 1) ELSE 0
        s == Strip(text)
        question == IF MatchesQuestionToken(s) THEN 350
                    ELSE IF ContainsQuestionN(s) THEN 250
                    ELSE 0
        short == IF Len(s) <= 12 /\ HasDigit(s) THEN 150 ELSE 0
        score == base + multi + question + short
    IN  IF score < 1700 THEN score ELSE 1700

_significance_bucket(score) ==
    IF score >= 1000 THEN "high"
    ELSE IF score >= 650 THEN "medium"
    ELSE "low"

_normalize_visual_text(text) ==
    LET clean == Strip(CollapseWhitespace(text))
    IN  IF Len(clean) > MAX_VISUAL_SIGNAL_TEXT_LEN
        THEN RStrip(SubSeq(clean, 1, MAX_VISUAL_SIGNAL_TEXT_LEN - 1)) \o <<ELLIPSIS>>
        ELSE clean

\* sorted(set(signal_types))
SortedTypes(S) == LET In(t) == t \in S IN SelectSeq(TypeOrder, In)

\* Optional[dict]: the empty sequence is None, a signal is a one-element sequence
_build_signal(filename, page_number, text, signal_types, source) ==
    LET clean == _normalize_visual_text(text)
        score == _score_visual_signal(clean, signal_types)
    IN  IF clean = <<>> THEN <<>>
        ELSE <<[file |-> filename,
                page |-> page_number,
                text |-> clean,
                signal_types |-> SortedTypes(Range(signal_types)),
                score |-> score,
                significance |-> _significance_bucket(score),
                source |-> source]>>

\* a variant of the key that keeps the case of the text
SignalKeyCaseSensitive(sig) == <<sig.file, sig.page, CollapseWhitespace(Strip(sig.text))>>

\* the dict key of _merge_visual_signals
SignalKey(sig) == <<sig.file, sig.page, CollapseWhitespace(Lower(Strip(sig.text)))>>

\* a variant of the update that takes the source of the colliding signal
MergeIntoLastSource(existing, sig) ==
    LET score == IF existing.score >= sig.score THEN existing.score ELSE sig.score
    IN  [existing EXCEPT
            !.signal_types = SortedTypes(Range(existing.signal_types) \cup Range(sig.signal_types)),
            !.score = score,
            !.significance = _significance_bucket(score),
            !.source = sig.source]

\* a variant of the update that leaves the significance as it was
MergeIntoStaleBucket(existing, sig) ==
    LET score == IF existing.score >= sig.score THEN existing.score ELSE sig.score
    IN  [existing EXCEPT
            !.signal_types = SortedTypes(Range(existing.signal_types) \cup Range(sig.signal_types)),
            !.score = score,
            !.source = IF existing.source # sig.source
                       THEN "annotation+style" ELSE existing.source]

\* the update of `existing` by a colliding signal
MergeInto(existing, sig) ==
    LET score == IF existing.score >= sig.score THEN existing.score ELSE sig.score
    IN  [existing EXCEPT
            !.signal_types = SortedTypes(Range(existing.signal_types) \cup Range(sig.signal_types)),
            !.score = score,
            !.significance = _significance_bucket(score),
            !.source = IF existing.source # sig.source
                       THEN "annotation+style" ELSE existing.source]

RECURSIVE GroupByKey(_, _, _)
\* by_key.values() after the loop, in insertion order
GroupByKey(signals, i, by_key) ==
    IF i > Len(signals) THEN by_key
    ELSE LET sig == signals[i]
             hit == {j \in 1..Len(by_key) : SignalKey(by_key[j]) = SignalKey(sig)}
         IN  IF hit = {}
             THEN GroupByKey(signals, i + 1, Append(by_key, sig))
             ELSE LET j == CHOOSE x \in hit : TRUE
                  IN  GroupByKey(signals, i + 1,
                                 [by_key EXCEPT ![j] = MergeInto(by_key[j], sig)])

\* s < t for Python strings: by code point, a proper prefix first
TextLess(s, t) ==
    \E i \in 1..(Len(t)) :
        /\ \A j \in 1..(i - 1) : j <= Len(s) /\ s[j] = t[j]
        /\ (i > Len(s) \/ (i - 1 < Len(s) /\ Ord(s[i]) < Ord(t[i])))

\* the sort key (-score, page, text) of a comes before that of b
RankedBefore(a, b) ==
    \/ a.score > b.score
    \/ a.score = b.score /\ a.page < b.page
    \/ a.score = b.score /\ a.page = b.page /\ TextLess(a.text, b.text)

\* a variant of the insertion that puts x before the elements it ties with
InsertBeforeTies(sorted, x) ==
    LET notBefore == {j \in 1..Len(sorted) : ~RankedBefore(sorted[j], x)}
        at == IF notBefore = {} THEN Len(sorted) + 1 ELSE SetMin(notBefore)
    IN  SubSeq(sorted, 1, at - 1) \o <<x>> \o SubSeq(sorted, at, Len(sorted))

\* x goes before the first element that ranks after it: sorted() is stable
InsertRanked(sorted, x) ==
    LET after == {j \in 1..Len(sorted) : RankedBefore(x, sorted[j])}
        at == IF after = {} THEN Len(sorted) + 1 ELSE SetMin(after)
    IN  SubSeq(sorted, 1, at - 1) \o <<x>> \o SubSeq(sorted, at, Len(sorted))

RECURSIVE SortRanked(_, _, _)
SortRanked(values, i, acc) ==
    IF i > Len(values) THEN acc
    ELSE SortRanked(values, i + 1, InsertRanked(acc, values[i]))

\* a variant of the merge that cuts to the limit before it ranks
MergeCutBeforeRanking(signals, limit) ==
    LET by_key == GroupByKey(signals, 1, <<>>)
        kept == SubSeq(by_key, 1, IF Len(by_key) < limit THEN Len(by_key) ELSE limit)
    IN  SortRanked(kept, 1, <<>>)

_merge_visual_signals(signals, limit) ==
    LET ranked == SortRanked(GroupByKey(signals, 1, <<>>), 1, <<>>)
    IN  SubSeq(ranked, 1, IF Len(ranked) < limit THEN Len(ranked) ELSE limit)

------------------------------------------------------------------------------
(* The components at rest: a specification that exercises one component      *)
(* leaves the others in these states.                                        *)

NormIdle == nText = <<>> /\ nOut = <<>> /\ nPrev = <<>> /\ nPass = 0
OcrIdle == qText = <<>> /\ qResult = FALSE /\ qDone = FALSE
ScoreIdle == scText = <<>> /\ scTypes = <<>> /\ scScore = 0 /\ scDone = FALSE
MergeIdle == mIn = <<>> /\ mLimit = 0 /\ mOut = <<>> /\ mDone = FALSE
DenoiseIdle == dKinds = <<>> /\ dPages = <<>> /\ dOut = <<>> /\ dDone = FALSE
NoValue == <<>>
PipeIdle ==
    /\ pdf_text = <<>> /\ pdf_files = <<>> /\ collect_visual = FALSE
    /\ pc = "done" /\ file_index = 1 /\ page_count = 0 /\ pages_read = 0
    /\ pages = <<>> /\ page_log = <<>> /\ file_log = <<>> /\ doc_signals = <<>>
    /\ normalized_pages = <<>> /\ doc_output = NoValue /\ parts = <<>>
    /\ visual_signals = <<>> /\ dump_file = NoValue /\ result = NoValue

VisualIdle == vIn = NoValue /\ vOut = NoValue /\ vDone = FALSE
RunIdle ==
    rPc = "done" /\ rEvents = <<>> /\ rChunks = <<>> /\ rGuide = <<>> /\ rExc = ""
StreamIdle ==
    /\ sPc = "done" /\ sYielded = <<>> /\ sStreamed = <<>> /\ sHas = FALSE
    /\ sReceived = 0 /\ sMarkdown = <<>> /\ sStart = 0
ServiceIdle == VisualIdle /\ RunIdle /\ StreamIdle

RECURSIVE SeqsUpTo(_, _)
\* every sequence over S of length at most n
SeqsUpTo(S, n) ==
    IF n = 0 THEN {<<>>}
    ELSE LET shorter == SeqsUpTo(S, n - 1)
         IN  shorter \cup {Append(s, c) : s \in {t \in shorter : Len(t) = n - 1}, c \in S}

------------------------------------------------------------------------------
(* SpecNorm: the normaliser applied to a page text, and again to its result. *)

MaxNormLen == 6
NormAlphabet == {"a", SP, LF, "-"}

\* Page texts made of whole lines: flow lines, one line of each structural
\* kind, lines just outside a kind (no space after the marker, a ':' line of
\* 91 characters, upper-case lines of 2 and of 81 characters), lines that end
\* in a hyphen, a blank line; the lines end in LF, CR or CR LF.
MaxNormLines == 3
NormLines ==
    { <<"a","b">>, <<"a",SP,SP,"b">>, <<"-",SP,"a">>, <<"1",".",SP,"a">>,
      <<"1",".","a">>, <<"a",":">>, <<"a","|","b">>, <<"A","B","C">>, <<"A","B">>,
      <<>>, <<SP,"a",TAB,"b",SP>>, <<"a","b","-">>, <<"-",SP,"a","b","-">>,
      <<"_","b">>, [i \in 1..90 |-> "a"] \o <<":">>, [i \in 1..81 |-> "A"] }
NormLineEndings == {<<LF>>, <<CR>>, <<CR, LF>>}
NormLineTexts ==
    {Join(ls, sep) : ls \in SeqsUpTo(NormLines, MaxNormLines), sep \in NormLineEndings}

NormInit ==
    /\ nText \in SeqsUpTo(NormAlphabet, MaxNormLen) \cup NormLineTexts
    /\ nOut = <<>>
    /\ nPrev = <<>>
    /\ nPass = 0
    /\ OcrIdle /\ ScoreIdle /\ MergeIdle /\ DenoiseIdle /\ PipeIdle /\ ServiceIdle

\* one call of _normalize_page_text: on the input first, then on its own result
NormalizePage ==
    /\ nPass < 2
    /\ nOut' = _normalize_page_text(IF nPass = 0 THEN nText ELSE nOut)
    /\ nPrev' = nOut
    /\ nPass' = nPass + 1
    /\ UNCHANGED <<nText, ocrVars, scoreVars, mergeVars, denoiseVars, pipeVars, serviceVars>>

NormNext == NormalizePage
SpecNorm == NormInit /\ [][NormNext]_vars

\* C1: normalising an already normalised text changes nothing:
\* the second pass returns what the first pass returned.
C1_NormalizeIdempotent == nPass = 2 => nOut = nPrev

------------------------------------------------------------------------------
(* SpecOcr: the quality classifier applied to one native page text. The      *)
(* texts are built from words of six ASCII letters, words of two, single     *)
(* letters, words of six accented letters and runs of four symbols.          *)

MaxOcrWords == 8
MaxOcrShortWords == 2
MaxOcrSingles == 2
MaxOcrAccented == 8
MaxOcrSymbolRuns == 13

RECURSIVE Repeat(_, _)
Repeat(s, n) == IF n = 0 THEN <<>> ELSE s \o Repeat(s, n - 1)

OcrText(words, shorts, singles, accented, symbols) ==
    Repeat(<<"a","b","c","d","e","f", SP>>, words)
    \o Repeat(<<"Q","3", SP>>, shorts)
    \o Repeat(<<"a", LF>>, singles)
    \o Repeat(<<E_ACUTE, E_ACUTE, E_ACUTE, E_ACUTE, E_ACUTE, E_ACUTE, SP>>, accented)
    \o Repeat(<<"%", "$", "#", "@">>, symbols)

OcrInputs ==
    {OcrText(w, h, l, e, y) :
        w \in 0..MaxOcrWords, h \in 0..MaxOcrShortWords, l \in 0..MaxOcrSingles,
        e \in 0..MaxOcrAccented, y \in 0..MaxOcrSymbolRuns}

OcrInit ==
    /\ qText \in OcrInputs
    /\ qResult = FALSE
    /\ qDone = FALSE
    /\ NormIdle /\ ScoreIdle /\ MergeIdle /\ DenoiseIdle /\ PipeIdle /\ ServiceIdle

\* one call of _should_ocr_page
Classify ==
    /\ ~qDone
    /\ qResult' = _should_ocr_page(qText)
    /\ qDone' = TRUE
    /\ UNCHANGED <<qText, normVars, scoreVars, mergeVars, denoiseVars, pipeVars, serviceVars>>

OcrNext == Classify
SpecOcr == OcrInit /\ [][OcrNext]_vars

\* the maximal runs of at least two characters of a class
RunsOfTwo(s, InClass(_)) ==
    Cardinality({i \in 1..Len(s) :
        /\ InClass(s[i])
        /\ (i = 1 \/ ~InClass(s[i - 1]))
        /\ i < Len(s) /\ InClass(s[i + 1])})

NonWhitespaceCount(s) == Cardinality({i \in 1..Len(s) : ~IsSpace(s[i])})
AlnumCount(s) == Cardinality({i \in 1..Len(s) : IsAlnum(s[i])})

\* the four guards of the claim, the word guard over the runs of a class
AnyGuardHolds(s, InClass(_)) ==
    LET chars == NonWhitespaceCount(s)
        alnum == AlnumCount(s)
    IN  \/ chars < 48
        \/ RunsOfTwo(s, InClass) < 8
        \/ 100 * alnum < 45 * chars
        \/ 100 * (chars - alnum) > 40 * chars

\* C9: OCR is wanted exactly when one of the four guards holds: fewer than 48
\* non-whitespace characters, fewer than 8 runs of 2 or more alphanumeric
\* characters, an alphanumeric ratio under 0.45, a symbol ratio over 0.40.
C9_ShouldOcrIffGuard == qDone => (qResult <=> AnyGuardHolds(qText, IsAlnum))

------------------------------------------------------------------------------
(* SpecScore: the scorer applied to one text and one list of signal types.   *)

MaxScoreTypes == 3

Q3Text == <<"Q", "3">>
\* "Q3" followed by blanks, 13 characters in all
PaddedQ3Text == Q3Text \o <<SP, SP, SP, SP, SP, SP, SP, SP, SP, SP, TAB>>
ScoreTexts ==
    { Q3Text,
      <<"N","o","t","e">>,
      <<"o","v","e","r","v","i","e","w", SP, "p","a","r","a","g","r","a","p","h">>,
      <<"Q","u","e","s","t","i","o","n", SP, "2">>,
      <<"s","e","e", SP, "q","u","e","s","t","i","o","n", SP, "2", SP, "n","o","w">>,
      <<"x", "1">>,
      <<"a","b","c","d","e","f","g","h","i","j","k","l","1">>,
      PaddedQ3Text }

ScoreInit ==
    /\ scText \in ScoreTexts
    /\ scTypes \in SeqsUpTo(SignalTypes, MaxScoreTypes)
    /\ scScore = 0
    /\ scDone = FALSE
    /\ NormIdle /\ OcrIdle /\ MergeIdle /\ DenoiseIdle /\ PipeIdle /\ ServiceIdle

\* one call of _score_visual_signal
ScoreSignal ==
    /\ ~scDone
    /\ scScore' = _score_visual_signal(scText, scTypes)
    /\ scDone' = TRUE
    /\ UNCHANGED <<scText, scTypes, normVars, ocrVars, mergeVars, denoiseVars, pipeVars, serviceVars>>

ScoreNext == ScoreSignal
SpecScore == ScoreInit /\ [][ScoreNext]_vars

\* a text with no digit that is neither a question token nor holds "question N"
IsPlainText(t) ==
    /\ ~HasDigit(t)
    /\ ~MatchesQuestionToken(Strip(t))
    /\ ~ContainsQuestionN(Strip(t))

\* C4 as stated: with the same signal types, "Q3" scores strictly higher than
\* a plain text.
C4_Original ==
    (scDone /\ IsPlainText(scText)) => _score_visual_signal(Q3Text, scTypes) > scScore

\* C4 amended: "Q3" scores 0.5 more than a plain text with the same signal
\* types, up to the cap: strictly higher while the plain text scores below
\* 1.7, and 1.7 like the plain text once that is at the cap.
C4_Q3HigherBelowCap ==
    (scDone /\ IsPlainText(scText)) =>
        LET q == _score_visual_signal(Q3Text, scTypes)
        IN  /\ scScore < 1700 => q > scScore
            /\ q = IF scScore + 500 < 1700 THEN scScore + 500 ELSE 1700

\* a plain text scored at the cap
C4_Witness ==
    /\ scDone /\ IsPlainText(scText) /\ scScore = 1700
    /\ _score_visual_signal(Q3Text, scTypes) = 1700

------------------------------------------------------------------------------
(* SpecMerge: the merger applied to a list of signals built by _build_signal *)

MaxMergeIn == 3

MergeLocations == {<<"a.pdf", 1>>, <<"a.pdf", 2>>, <<"b.pdf", 1>>}
MergeTexts == {<<"X", "1">>, <<"x", "1">>}
MergeMarks ==
    { [types |-> <<"highlight">>, source |-> "annotation"],
      [types |-> <<"strikeout">>, source |-> "annotation"],
      [types |-> <<"bold">>, source |-> "style"] }
MergeLimits == {2, MAX_VISUAL_SIGNALS_PER_FILE}

MergeInit ==
    /\ mIn = <<>>
    /\ mLimit = 0
    /\ mOut = <<>>
    /\ mDone = FALSE
    /\ NormIdle /\ OcrIdle /\ ScoreIdle /\ DenoiseIdle /\ PipeIdle /\ ServiceIdle

\* one more signal is built and collected
CollectSignal ==
    /\ ~mDone
    /\ Len(mIn) < MaxMergeIn
    /\ \E loc \in MergeLocations, text \in MergeTexts, mark \in MergeMarks :
        mIn' = mIn \o _build_signal(loc[1], loc[2], text, mark.types, mark.source)
    /\ UNCHANGED <<mLimit, mOut, mDone, normVars, ocrVars, scoreVars, denoiseVars, pipeVars, serviceVars>>

\* one call of _merge_visual_signals
MergeSignals ==
    /\ ~mDone
    /\ \E limit \in MergeLimits :
        /\ mLimit' = limit
        /\ mOut' = _merge_visual_signals(mIn, limit)
    /\ mDone' = TRUE
    /\ UNCHANGED <<mIn, normVars, ocrVars, scoreVars, denoiseVars, pipeVars, serviceVars>>

MergeNext == CollectSignal \/ MergeSignals
SpecMerge == MergeInit /\ [][MergeNext]_vars

\* the key of the claim: file, page, lower-cased whitespace-collapsed text
DedupKey(sig) == <<sig.file, sig.page, Strip(CollapseWhitespace(Lower(sig.text)))>>

WithKey(signals, key) == {i \in 1..Len(signals) : DedupKey(signals[i]) = key}
KeysOf(signals) == {DedupKey(signals[i]) : i \in 1..Len(signals)}

\* C2: after a merge no two signals share a key; the inputs of one key give
\* one signal (none when the cap cut it) with the union of their types and
\* the maximum of their scores.
C2_MergeDedups ==
    mDone =>
        /\ \A i, j \in 1..Len(mOut) : DedupKey(mOut[i]) = DedupKey(mOut[j]) => i = j
        /\ KeysOf(mOut) \subseteq KeysOf(mIn)
        /\ Len(mOut) = IF Cardinality(KeysOf(mIn)) < mLimit
                       THEN Cardinality(KeysOf(mIn)) ELSE mLimit
        /\ \A o \in 1..Len(mOut) :
            LET group == WithKey(mIn, DedupKey(mOut[o]))
            IN  /\ Range(mOut[o].signal_types)
                      = UNION {Range(mIn[i].signal_types) : i \in group}
                /\ \E i \in group : mOut[o].score = mIn[i].score
                /\ \A i \in group : mOut[o].score >= mIn[i].score

\* three inputs of one key, of three types and three scores, become one signal
C2_Witness ==
    /\ mDone /\ Len(mIn) = 3 /\ Len(mOut) = 1
    /\ Cardinality({mIn[i].text : i \in 1..3}) = 2
    /\ Cardinality({mIn[i].score : i \in 1..3}) = 3
    /\ Cardinality(Range(mOut[1].signal_types)) = 3

------------------------------------------------------------------------------
(* SpecDenoise: the denoiser applied to the page texts of one document. A    *)
(* document is a sequence of pages, each of one of the kinds below; its text *)
(* carries the page number, as running heads and page counters do.           *)

MaxDenoisePages == 6

PageWords ==
    << <<"o","n","e">>, <<"t","w","o","s">>, <<"t","h","r","e","e">>,
       <<"f","o","u","r">>, <<"f","i","v","e">>, <<"s","i","x","e","s">>,
       <<"s","e","v","e","n">>, <<"e","i","g","h","t">>, <<"n","i","n","e">> >>

PageWord(k) == PageWords[((k - 1) % Len(PageWords)) + 1]
PageDigit(k) == DigitSeq[(k % 10) + 1]
SecHead(k) == <<"S", "e", "c", SP, PageDigit(k)>>

\* a page counter between dashes, and a running line of more than 140
\* characters
PageCounter(k) == <<"-", SP, PageDigit(k), SP, "-">>
LongLine(k) == SecHead(k) \o <<SP>> \o [i \in 1..MAX_CANDIDATE_LEN |-> "x"]

DenoiseKinds == {"head", "mid", "twice", "short", "counter"}

\* the text of page k of a kind
DenoisePageText(kind, k) ==
    CASE kind = "head" -> SecHead(k) \o <<LF>> \o PageWord(k)
      [] kind = "mid" -> <<"b","o","d","y", LF>> \o PageWord(k) \o <<LF>>
                         \o Lower(SecHead(k)) \o <<SP, LF, LF>> \o PageWord(k)
                         \o <<LF, "t","e","x","t">>
      [] kind = "twice" -> SecHead(k) \o <<LF>> \o SecHead(k)
      [] kind = "counter" -> LongLine(k) \o <<LF>> \o PageWord(k) \o <<LF>>
                             \o PageCounter(k)
      [] OTHER -> <<"a", "b", LF, "-", "-", "-", "-", LF>> \o PageWord(k)

DenoiseInit ==
    /\ dKinds = <<>>
    /\ dPages = <<>>
    /\ dOut = <<>>
    /\ dDone = FALSE
    /\ NormIdle /\ OcrIdle /\ ScoreIdle /\ MergeIdle /\ PipeIdle /\ ServiceIdle

\* the document gets one more page
AddPage ==
    /\ ~dDone
    /\ Len(dPages) < MaxDenoisePages
    /\ \E kind \in DenoiseKinds :
        /\ dKinds' = Append(dKinds, kind)
        /\ dPages' = Append(dPages, DenoisePageText(kind, Len(dPages) + 1))
    /\ UNCHANGED <<dOut, dDone, normVars, ocrVars, scoreVars, mergeVars, pipeVars, serviceVars>>

\* one call of _remove_repeated_headers_and_footers
Denoise ==
    /\ ~dDone
    /\ dOut' = _remove_repeated_headers_and_footers(dPages)
    /\ dDone' = TRUE
    /\ UNCHANGED <<dKinds, dPages, normVars, ocrVars, scoreVars, mergeVars, pipeVars, serviceVars>>

DenoiseNext == AddPage \/ Denoise
SpecDenoise == DenoiseInit /\ [][DenoiseNext]_vars

\* What the claims call a signature, the pages it is sampled on, the threshold.
Signature(line) == _normalize_match_line(line)

\* the first 2 and the last 2 non-blank lines of a page
EdgeLines(text) ==
    LET nb == NonBlankLines(text)
        n == Len(nb)
    IN  {nb[i] : i \in {j \in 1..n : j <= 2 \/ j > n - 2}}

\* the least m with m >= 3 and m >= 0.60 * n
RepeatThreshold(n) ==
    CHOOSE m \in 3..(n + 3) :
        /\ 100 * m >= 60 * n
        /\ \A k \in 3..(n + 3) : 100 * k >= 60 * n => m <= k

\* per page, the signatures of its edge lines
EdgeSignatures(texts) ==
    [i \in 1..Len(texts) |-> {Signature(ln) : ln \in EdgeLines(texts[i])}]

\* the same, of the edge lines of 4 to 140 characters only, the empty
\* signature left out
CandidateSignatures(texts) ==
    [i \in 1..Len(texts) |->
        {Signature(ln) : ln \in {l \in EdgeLines(texts[i]) : Len(l) >= 4 /\ Len(l) <= 140}}
        \ {<<>>}]

\* the signatures found on at least max(3, ceil(0.60 * texts)) texts, a page
\* counting once
OnEnoughPages(perPage) ==
    {sig \in UNION {perPage[i] : i \in DOMAIN perPage} :
        Cardinality({i \in DOMAIN perPage : sig \in perPage[i]})
            >= RepeatThreshold(Len(perPage))}

Boilerplate(texts) == OnEnoughPages(CandidateSignatures(texts))

\* every page has a non-blank line, and the first of each has one signature
SameFirstSignature(texts) ==
    /\ \A i \in 1..Len(texts) : NonBlankLines(texts[i]) # <<>>
    /\ \A i \in 1..Len(texts) :
        Signature(NonBlankLines(texts[i])[1]) = Signature(NonBlankLines(texts[1])[1])

FirstSignatureGone(texts, out) ==
    /\ Len(out) = Len(texts)
    /\ \A i \in 1..Len(out) : \A ln \in Range(SplitLines(out[i])) :
        Signature(ln) # Signature(NonBlankLines(texts[1])[1])

\* C6 as stated: with at least 3 texts whose first non-blank lines share one
\* signature, as many texts come back and none holds a line of that signature.
C6_Original ==
    (dDone /\ Len(dPages) >= 3 /\ SameFirstSignature(dPages))
        => FirstSignatureGone(dPages, dOut)

FirstLinesAreCandidates(texts) ==
    \A i \in 1..Len(texts) :
        LET first == NonBlankLines(texts[i])[1]
        IN  Len(first) >= 4 /\ Len(first) <= 140 /\ Signature(first) # <<>>

\* C6 amended: the same, when each of those first lines has 4 to 140
\* characters and a non-empty signature.
C6_FirstLineRemoved ==
    (/\ dDone /\ Len(dPages) >= 3
     /\ SameFirstSignature(dPages)
     /\ FirstLinesAreCandidates(dPages))
        => FirstSignatureGone(dPages, dOut)

C6_Witness ==
    /\ dDone /\ Len(dPages) >= 3
    /\ SameFirstSignature(dPages)
    /\ FirstLinesAreCandidates(dPages)
    /\ dOut # dPages
    /\ \E i \in 1..Len(dKinds) : dKinds[i] = "twice"

\* C7: a document of fewer than 3 pages, or one in which no signature reaches
\* the repetition threshold, comes back unchanged.
C7_Unchanged ==
    (dDone /\ (Len(dPages) < 3 \/ Boilerplate(dPages) = {})) => dOut = dPages

\* three pages or more, and a signature one page short of the threshold
C7_Witness ==
    /\ dDone /\ Len(dPages) >= 3 /\ Boilerplate(dPages) = {}
    /\ LET cs == CandidateSignatures(dPages)
       IN  \E i \in DOMAIN cs : \E sig \in cs[i] :
              Cardinality({j \in DOMAIN cs : sig \in cs[j]})
                  = RepeatThreshold(Len(dPages)) - 1

\* the page text left when the lines with a flagged signature are removed
PageWithout(text, flagged) ==
    LET Kept(ln) == Signature(ln) \notin flagged
        kept == SelectSeq(SplitLines(text), Kept)
    IN  Strip(Join([i \in 1..Len(kept) |-> RStrip(kept[i])], <<LF>>))

\* C8 as stated: the flagged signatures are those that occur among the edge
\* lines of at least max(3, ceil(0.60 * pages)) pages; their lines are
\* removed and the other lines kept in order.
C8_Original ==
    dDone =>
        LET flagged == OnEnoughPages(EdgeSignatures(dPages))
        IN  /\ Len(dOut) = Len(dPages)
            /\ \A i \in 1..Len(dPages) :
                NonBlankLines(dOut[i]) = NonBlankLines(PageWithout(dPages[i], flagged))

\* C8 amended: only edge lines of 4 to 140 characters with a non-empty
\* signature count; a page counts once; the lines of a signature counted on
\* at least max(3, ceil(0.60 * pages)) pages are removed from every page and
\* the other lines are kept in order (right-trimmed, the page stripped); with
\* no such signature every page is returned as it is.
C8_RepeatedIffThreshold ==
    dDone =>
        LET flagged == Boilerplate(dPages)
        IN  /\ Len(dOut) = Len(dPages)
            /\ \A i \in 1..Len(dPages) :
                dOut[i] = IF flagged = {} THEN dPages[i]
                          ELSE PageWithout(dPages[i], flagged)

\* a page that is counted once although it holds the signature twice, in a
\* document whose threshold is above the floor of 3, and a line removed from
\* the middle of a page
C8_Witness ==
    /\ dDone /\ Len(dPages) >= 6
    /\ LET cs == CandidateSignatures(dPages)
           sec == Signature(SecHead(1))
       IN  /\ sec \in Boilerplate(dPages)
           /\ Cardinality({j \in DOMAIN cs : sec \in cs[j]}) = RepeatThreshold(Len(dPages))
    /\ \E i \in 1..Len(dKinds) : dKinds[i] = "twice"
    /\ \E i \in 1..Len(dKinds) : dKinds[i] = "mid" /\ dOut[i] # dPages[i]


------------------------------------------------------------------------------
(* Visual signal extraction from one page. A page is what the PDF parser     *)
(* gives for it: the native text, the word boxes, the annotations and the    *)
(* styled spans, and how the OCR engine answers for it. Rectangles have      *)
(* integer corners.                                                          *)

\* MIN_RECT_WORD_OVERLAP = 0.20, in hundredths
MIN_RECT_WORD_OVERLAP_PCT == 20
\* fitz.TEXT_FONT_BOLD
TEXT_FONT_BOLD == 16

Rect(x0, y0, x1, y1) == [x0 |-> x0, y0 |-> y0, x1 |-> x1, y1 |-> y1]
Max2(a, b) == IF a >= b THEN a ELSE b
Min2(a, b) == IF a <= b THEN a ELSE b
\* rect_a & rect_b
Intersect(a, b) ==
    Rect(Max2(a.x0, b.x0), Max2(a.y0, b.y0), Min2(a.x1, b.x1), Min2(a.y1, b.y1))
IsEmptyRect(r) == r.x0 >= r.x1 \/ r.y0 >= r.y1
GetArea(r) == IF IsEmptyRect(r) THEN 0 ELSE (r.x1 - r.x0) * (r.y1 - r.y0)

\* a variant that takes the overlap as a ratio of rect_a's area
OverlapRatioOfFirst(rect_a, rect_b) ==
    LET inter == Intersect(rect_a, rect_b)
    IN  IF IsEmptyRect(inter) THEN 0
        ELSE (100 * GetArea(inter)) \div GetArea(rect_a)

\* the overlap as a ratio of rect_b's area, in whole hundredths
_overlap_ratio(rect_a, rect_b) ==
    LET inter == Intersect(rect_a, rect_b)
    IN  IF IsEmptyRect(inter) THEN 0
        ELSE (100 * GetArea(inter)) \div GetArea(rect_b)

\* a word item is <<x0, y0, x1, y1, text>>
_extract_words_for_page(page) ==
    LET Usable(item) == Len(item) >= 5 /\ _normalize_visual_text(item[5]) # <<>>
        items == SelectSeq(page.words, Usable)
    IN  [i \in 1..Len(items) |->
            [rect |-> Rect(items[i][1], items[i][2], items[i][3], items[i][4]),
             text |-> _normalize_visual_text(items[i][5]),
             sort_y |-> items[i][2],
             sort_x |-> items[i][1]]]

\* the sort key (sort_y, sort_x) of a comes before that of b
WordBefore(a, b) == a.sort_y < b.sort_y \/ (a.sort_y = b.sort_y /\ a.sort_x < b.sort_x)

RECURSIVE SortWords(_, _, _)
\* selected.sort(key=...): a stable insertion of each word in turn
SortWords(values, i, acc) ==
    IF i > Len(values) THEN acc
    ELSE LET x == values[i]
             after == {j \in 1..Len(acc) : WordBefore(x, acc[j])}
             at == IF after = {} THEN Len(acc) + 1 ELSE SetMin(after)
         IN  SortWords(values, i + 1,
                       SubSeq(acc, 1, at - 1) \o <<x>> \o SubSeq(acc, at, Len(acc)))

\* textbox is what page.get_textbox(rect) gives for the rectangle
_collect_text_in_rect(rect, textbox, words) ==
    LET Near(w) == _overlap_ratio(rect, w.rect) >= MIN_RECT_WORD_OVERLAP_PCT
        selected == SortWords(SelectSeq(words, Near), 1, <<>>)
    IN  IF selected # <<>>
        THEN _normalize_visual_text(
                 Join([i \in 1..Len(selected) |-> selected[i].text], <<SP>>))
        ELSE _normalize_visual_text(textbox)

\* type_map.get(annot_type): the empty string is no mapping
MappedType(annot_type) ==
    IF annot_type \in {"highlight", "underline", "strikeout", "squiggly"}
    THEN annot_type ELSE ""

RECURSIVE AnnotationSignalsAbort(_, _, _, _, _)
\* a variant of the loop that a raising annotation ends
AnnotationSignalsAbort(annots, i, words, filename, page_number) ==
    IF i > Len(annots) THEN <<>>
    ELSE LET annot == annots[i]
             rest == AnnotationSignalsAbort(annots, i + 1, words, filename, page_number)
         IN  IF annot.malformed THEN <<>>
             ELSE IF MappedType(annot.type) = "" THEN rest
             ELSE _build_signal(filename, page_number,
                                _collect_text_in_rect(annot.rect, annot.textbox, words),
                                <<MappedType(annot.type)>>, "annotation") \o rest

RECURSIVE AnnotationSignals(_, _, _, _, _)
\* the loop over the annotations; one that raises is skipped
AnnotationSignals(annots, i, words, filename, page_number) ==
    IF i > Len(annots) THEN <<>>
    ELSE LET annot == annots[i]
             rest == AnnotationSignals(annots, i + 1, words, filename, page_number)
         IN  IF annot.malformed \/ MappedType(annot.type) = "" THEN rest
             ELSE _build_signal(filename, page_number,
                                _collect_text_in_rect(annot.rect, annot.textbox, words),
                                <<MappedType(annot.type)>>, "annotation") \o rest

\* defined when neither the word extraction nor page.annots() raises
_extract_visual_signals_from_annotations(page, filename, page_number) ==
    AnnotationSignals(page.annots, 1, _extract_words_for_page(page), filename, page_number)

StyleTypes(span) ==
    (IF (span.flags \div TEXT_FONT_BOLD) % 2 = 1 THEN <<"bold">> ELSE <<>>)
    \o (IF span.color # 0 THEN <<"colored_text">> ELSE <<>>)

\* a variant of the filter that takes a digit in a text of any length
LikelyMarkerAnyLength(text) ==
    \/ MatchesQuestionToken(text)
    \/ ContainsQuestionN(text)
    \/ HasDigit(text)

\* the conservative text filter of the style path
LikelyMarker(text) ==
    \/ MatchesQuestionToken(text)
    \/ ContainsQuestionN(text)
    \/ (Len(text) <= 24 /\ HasDigit(text))

RECURSIVE StyleSignals(_, _, _, _)
StyleSignals(spans, i, filename, page_number) ==
    IF i > Len(spans) THEN <<>>
    ELSE LET span == spans[i]
             text == _normalize_visual_text(span.text)
             rest == StyleSignals(spans, i + 1, filename, page_number)
         IN  IF text = <<>> \/ StyleTypes(span) = <<>> \/ ~LikelyMarker(text) THEN rest
             ELSE _build_signal(filename, page_number, text, StyleTypes(span), "style")
                  \o rest

_extract_visual_signals_from_styles(page, filename, page_number) ==
    IF page.visual = "dict_raises" THEN <<>>
    ELSE StyleSignals(page.spans, 1, filename, page_number)

\* a variant of the OCR attempt that returns the engine's text as it is
OcrTextUnstripped(ocr) ==
    IF ocr.kind = "no_deps" THEN <<>>
    ELSE IF ocr.kind = "raises" THEN <<>>
    ELSE ocr.text

\* an OCR attempt: the imports fail, the rendering or the engine raises, or
\* the engine gives a text
_extract_ocr_text_from_page(ocr) ==
    IF ocr.kind = "no_deps" THEN <<>>
    ELSE IF ocr.kind = "raises" THEN <<>>
    ELSE Strip(ocr.text)

------------------------------------------------------------------------------
(* The pages the model draws from: page k of an n-page document is one of    *)
(* these.                                                                    *)

CourseText(k, n) ==
    <<"C", "o", "u", "r", "s", "e", SP, "X", LF, "B", "o", "d", "y", SP>> \o PageWord(k)
    \o <<LF, "P", "a", "g", "e", SP, PageDigit(k), SP, "o", "f", SP, PageDigit(n)>>

ProseText(k) ==
    <<"U", "N", "I", "T", SP, PageDigit(k), LF, "Q", "3", SP>>
    \o Repeat(<<"a", "b", "c", "d", "e", "f", SP>>, 8) \o PageWord(k)

NoOcr == [kind |-> "no_deps", text |-> <<>>]
BlankPage ==
    [get_text |-> "ok", native |-> <<>>, ocr |-> NoOcr, visual |-> "ok",
     words |-> <<>>, annots |-> <<>>, spans |-> <<>>]

Annot(type, rect, textbox) ==
    [malformed |-> FALSE, type |-> type, rect |-> rect, textbox |-> textbox]
MalformedAnnot ==
    [malformed |-> TRUE, type |-> "", rect |-> Rect(0, 0, 0, 0), textbox |-> <<>>]
Span(text, flags, color) == [text |-> text, flags |-> flags, color |-> color]

MarkedWords ==
    << <<2, 0, 12, 1, <<"i", "s">>>>,
       <<0, 0, 2, 1, <<"Q", "3">>>>,
       <<0, 2, 2, 3, <<SP>>>>,
       <<0, 4, 2, 5>> >>

MarkedAnnots ==
    << Annot("highlight", Rect(0, 0, 3, 1), <<"i", "s">>),
       MalformedAnnot,
       Annot("strikeout", Rect(20, 20, 24, 21), <<SP, "x", "1", LF>>),
       Annot("popup", Rect(0, 0, 3, 1), <<"Q", "3">>),
       Annot("underline", Rect(30, 30, 34, 31), <<>>),
       Annot("squiggly", Rect(40, 40, 44, 41), <<"N", "o", "t", "e">>) >>

MarkedSpans ==
    << Span(<<"q", "3">>, 16, 0),
       Span(<<SP, "X", "1">>, 20, 255),
       Span(<<"I", "n", "t", "r", "o">>, 16, 0),
       Span(<<"p", "l", "a", "i", "n", SP, "7">>, 0, 0),
       Span(<<"p", "2">>, 4, 255) >>

PageSources(k, n) ==
    { \* a short text page, no OCR installed
      [BlankPage EXCEPT !.native = CourseText(k, n)],
      \* a short text page that the OCR engine reads
      [BlankPage EXCEPT !.native = CourseText(k, n),
                        !.ocr = [kind |-> "text",
                                 text |-> <<SP>> \o CourseText(k, n) \o <<LF>>]],
      \* a page with the header line only, on which the OCR engine raises
      [BlankPage EXCEPT !.native = <<"C", "o", "u", "r", "s", "e", SP, "X">>,
                        !.ocr = [kind |-> "raises", text |-> <<>>]],
      \* an empty page on which the OCR engine reads nothing
      [BlankPage EXCEPT !.ocr = [kind |-> "text", text |-> <<SP, LF>>]],
      \* a page of good text with marks on it
      [BlankPage EXCEPT !.native = ProseText(k), !.words = MarkedWords,
                        !.annots = MarkedAnnots, !.spans = MarkedSpans],
      \* the same with a failing part of the visual extraction
      [BlankPage EXCEPT !.native = ProseText(k), !.words = MarkedWords,
                        !.annots = MarkedAnnots, !.spans = MarkedSpans,
                        !.visual = "dict_raises"],
      [BlankPage EXCEPT !.native = ProseText(k), !.visual = "words_raise"],
      [BlankPage EXCEPT !.native = ProseText(k), !.visual = "annots_raise"],
      \* a page whose text extraction raises
      [BlankPage EXCEPT !.get_text = "raises"] }

------------------------------------------------------------------------------
(* Spec: extract_pdf_context on one request, document by document and page   *)
(* by page.                                                                  *)

MaxFiles == 2
MaxPages == 3

FileNames == {<<"a", ".", "p", "d", "f">>, <<"b", ".", "p", "d", "f">>}
LegacyTexts == {<<>>, <<"l", "e", "g", "a", "c", "y", SP, "t", "e", "x", "t">>}
\* the attachment lists, up to the renaming of the files
RequestFiles ==
    {files \in SeqsUpTo(FileNames, MaxFiles) :
        files = <<>> \/ files[1] = <<"a", ".", "p", "d", "f">>}

Init ==
    /\ pdf_text \in LegacyTexts
    /\ pdf_files \in RequestFiles
    /\ collect_visual \in BOOLEAN
    /\ pc = "file"
    /\ file_index = 1
    /\ page_count = 0
    /\ pages_read = 0
    /\ pages = <<>>
    /\ page_log = <<>>
    /\ file_log = <<>>
    /\ doc_signals = <<>>
    /\ normalized_pages = <<>>
    /\ doc_output = NoValue
    /\ parts = IF pdf_text # <<>> THEN <<pdf_text>> ELSE <<>>
    /\ visual_signals = <<>>
    /\ dump_file = NoValue
    /\ result = NoValue
    /\ NormIdle /\ OcrIdle /\ ScoreIdle /\ MergeIdle /\ DenoiseIdle /\ ServiceIdle

componentVars == <<normVars, ocrVars, scoreVars, mergeVars, denoiseVars, serviceVars>>
requestVars == <<pdf_text, pdf_files, collect_visual>>

EmptyBundle == [text |-> <<>>, signals |-> <<>>]

\* what the file loop of extract_pdf_context got for one attachment
FileOutcome(filename, failed, bundle) ==
    [filename |-> filename, failed |-> failed,
     text |-> bundle.text, signals |-> bundle.signals]

\* the ExtractedPage of one iteration of the page loop
ExtractedPage(idx, native_text, ocr) ==
    LET ocr_text == IF _should_ocr_page(native_text)
                    THEN _extract_ocr_text_from_page(ocr) ELSE <<>>
        method == IF ocr_text # <<>> THEN "ocr" ELSE "native"
        page_text == IF ocr_text # <<>> THEN ocr_text ELSE native_text
    IN  [number |-> idx, method |-> method, text |-> _normalize_page_text(page_text)]

MethodText(method) ==
    IF method = "ocr" THEN <<"o", "c", "r">> ELSE <<"n", "a", "t", "i", "v", "e">>

\* f"--- Page {page.number} ({page.method}) ---"
PageDelimiter(page) ==
    <<"-", "-", "-", SP, "P", "a", "g", "e", SP, PageDigit(page.number), SP, "(">>
    \o MethodText(page.method) \o <<")", SP, "-", "-", "-">>

NoTextPlaceholder ==
    <<"(", "n", "o", SP, "t", "e", "x", "t", SP, "e", "x", "t", "r", "a", "c", "t", "e", "d", ")">>

RECURSIVE MergedPartsSkipEmpty(_, _, _)
\* a variant of merged_parts that leaves out the pages without text
MergedPartsSkipEmpty(extracted, texts, i) ==
    IF i > Len(extracted) \/ i > Len(texts) THEN <<>>
    ELSE (IF texts[i] # <<>> THEN <<PageDelimiter(extracted[i]), texts[i]>> ELSE <<>>)
         \o MergedPartsSkipEmpty(extracted, texts, i + 1)

RECURSIVE MergedParts(_, _, _)
\* merged_parts of extract_pdf_context_from_pdf_bytes
MergedParts(extracted, texts, i) ==
    IF i > Len(extracted) \/ i > Len(texts) THEN <<>>
    ELSE <<PageDelimiter(extracted[i]),
           IF texts[i] # <<>> THEN texts[i] ELSE NoTextPlaceholder>>
         \o MergedParts(extracted, texts, i + 1)

\* output of extract_pdf_context_from_pdf_bytes, from the pages and their
\* denoised texts
DocumentText(extracted, texts) ==
    Strip(Join(MergedParts(extracted, texts, 1), <<LF>>))

\* f"--- File: {pdf_file.filename} ---\\n{text}": the source writes the two
\* characters backslash and n between the delimiter and the text
FileSection(filename, text) ==
    <<"-", "-", "-", SP, "F", "i", "l", "e", ":", SP>> \o filename
    \o <<SP, "-", "-", "-", "\\", "n">> \o text

\* a variant of the decoding failure that leaves the file loop
DecodeFailsBreaks ==
    /\ pc = "file" /\ file_index <= Len(pdf_files)
    /\ file_index' = Len(pdf_files) + 1
    /\ file_log' = Append(file_log, FileOutcome(pdf_files[file_index], TRUE, EmptyBundle))
    /\ UNCHANGED <<requestVars, pc, page_count, pages_read, pages, page_log,
                   doc_signals, normalized_pages, doc_output, parts, visual_signals,
                   dump_file, result, componentVars>>

\* the base64 of the attachment does not decode: continue with the next one
DecodeFails ==
    /\ pc = "file" /\ file_index <= Len(pdf_files)
    /\ file_index' = file_index + 1
    /\ file_log' = Append(file_log, FileOutcome(pdf_files[file_index], TRUE, EmptyBundle))
    /\ UNCHANGED <<requestVars, pc, page_count, pages_read, pages, page_log,
                   doc_signals, normalized_pages, doc_output, parts, visual_signals,
                   dump_file, result, componentVars>>

\* a variant of the failed extraction that returns what the page loop had
\* collected when it stopped
NextFilePartial ==
    LET texts == [i \in 1..Len(pages) |-> pages[i].text]
        bundle == [text |-> DocumentText(pages, texts), signals |-> doc_signals]
    IN  /\ pc' = "file"
        /\ file_index' = file_index + 1
        /\ pages' = pages
        /\ doc_signals' = doc_signals
        /\ normalized_pages' = texts
        /\ doc_output' = bundle
        /\ file_log' = Append(file_log, FileOutcome(pdf_files[file_index], TRUE, bundle))
        /\ UNCHANGED <<requestVars, pages_read, parts, visual_signals, dump_file,
                       result, componentVars>>

\* the document yields no pages: ("", []) and nothing is appended
NextFileEmpty ==
    /\ pc' = "file"
    /\ file_index' = file_index + 1
    /\ pages' = <<>>
    /\ doc_signals' = <<>>
    /\ normalized_pages' = <<>>
    /\ doc_output' = EmptyBundle
    /\ file_log' = Append(file_log, FileOutcome(pdf_files[file_index], TRUE, EmptyBundle))
    /\ UNCHANGED <<requestVars, pages_read, parts, visual_signals, dump_file, result,
                   componentVars>>

\* pymupdf is not installed, or fitz.open raises on the bytes
OpenFails ==
    /\ pc = "file" /\ file_index <= Len(pdf_files)
    /\ page_count' = 0
    /\ page_log' = <<>>
    /\ NextFileEmpty

\* fitz.open succeeds on a document of n pages
OpenDocument ==
    /\ pc = "file" /\ file_index <= Len(pdf_files)
    /\ \E n \in 1..(MaxPages - pages_read) :
        /\ page_count' = n
        /\ pages_read' = pages_read + n
    /\ pc' = "page"
    /\ pages' = <<>>
    /\ page_log' = <<>>
    /\ doc_signals' = <<>>
    /\ normalized_pages' = <<>>
    /\ UNCHANGED <<requestVars, file_index, file_log, doc_output, parts,
                   visual_signals, dump_file, result, componentVars>>

\* the page raises in the loop body: at get_text, or with the feature on in
\* the word extraction or in page.annots()
Raises(page) ==
    \/ page.get_text = "raises"
    \/ collect_visual /\ page.visual \in {"words_raise", "annots_raise"}

\* an annotation of the page raises when it is processed
HasMalformed(page) == \E i \in 1..Len(page.annots) : page.annots[i].malformed

\* one iteration of the page loop that raises: the document is given up
PageRaises ==
    /\ pc = "page"
    /\ \E page \in PageSources(Len(pages) + 1, page_count) :
        /\ Raises(page)
        /\ page_log' = Append(page_log,
                              [native |-> page.native, ocr |-> page.ocr,
                               malformed |-> FALSE,
                               raised |-> IF page.get_text = "raises"
                                          THEN "get_text" ELSE "visual"])
    /\ UNCHANGED page_count
    /\ NextFileEmpty

\* one iteration of the page loop
ExtractPage ==
    /\ pc = "page"
    /\ \E page \in PageSources(Len(pages) + 1, page_count) :
        LET idx == Len(pages) + 1
            filename == pdf_files[file_index]
            native_text == page.native
        IN  /\ ~Raises(page)
            /\ pages' = Append(pages, ExtractedPage(idx, native_text, page.ocr))
            /\ page_log' = Append(page_log,
                                  [native |-> native_text, ocr |-> page.ocr,
                                   malformed |-> collect_visual /\ HasMalformed(page),
                                   raised |-> "no"])
            /\ doc_signals' =
                IF collect_visual
                THEN doc_signals
                     \o _extract_visual_signals_from_annotations(page, filename, idx)
                     \o _extract_visual_signals_from_styles(page, filename, idx)
                ELSE doc_signals
            /\ pc' = IF idx = page_count THEN "finish" ELSE "page"
    /\ UNCHANGED <<requestVars, file_index, file_log, page_count, pages_read,
                   normalized_pages, doc_output, parts, visual_signals, dump_file,
                   result, componentVars>>

\* after the page loop: the per-document merge, the denoising and assembly of
\* extract_pdf_context_from_pdf_bytes, and the appends of extract_pdf_context
FinishDocument ==
    /\ pc = "finish"
    /\ LET merged == _merge_visual_signals(doc_signals, MAX_VISUAL_SIGNALS_PER_FILE)
           denoised == _remove_repeated_headers_and_footers(
                           [i \in 1..Len(pages) |-> pages[i].text])
           output == DocumentText(pages, denoised)
           bundle == [text |-> output, signals |-> merged]
       IN  /\ doc_signals' = merged
           /\ normalized_pages' = denoised
           /\ doc_output' = bundle
           /\ file_log' = Append(file_log, FileOutcome(pdf_files[file_index], FALSE, bundle))
           /\ parts' = IF output # <<>>
                       THEN Append(parts, FileSection(pdf_files[file_index], output))
                       ELSE parts
           /\ visual_signals' = visual_signals \o merged
    /\ pc' = "file"
    /\ file_index' = file_index + 1
    /\ UNCHANGED <<requestVars, page_count, pages_read, pages, page_log, dump_file,
                   result, componentVars>>

\* after the file loop, the dump file can be written (or there are no parts)
ReturnContext ==
    /\ pc = "file" /\ file_index > Len(pdf_files)
    /\ LET merged == _merge_visual_signals(visual_signals, MAX_VISUAL_SIGNALS_PER_FILE)
       IN  /\ visual_signals' = merged
           /\ result' = [text |-> Join(parts, <<LF, LF>>), signals |-> merged]
    /\ dump_file' = IF parts # <<>> THEN Join(parts, <<LF, LF, LF>>) ELSE dump_file
    /\ pc' = "done"
    /\ UNCHANGED <<requestVars, file_index, file_log, page_count, pages_read, pages,
                   page_log, doc_signals, normalized_pages, doc_output, parts,
                   componentVars>>

\* after the file loop, open() or write() on the dump file raises
DumpRaises ==
    /\ pc = "file" /\ file_index > Len(pdf_files)
    /\ parts # <<>>
    /\ visual_signals' = _merge_visual_signals(visual_signals, MAX_VISUAL_SIGNALS_PER_FILE)
    /\ pc' = "raised"
    /\ UNCHANGED <<requestVars, file_index, file_log, page_count, pages_read, pages,
                   page_log, doc_signals, normalized_pages, doc_output, parts,
                   dump_file, result, componentVars>>

Next ==
    \/ DecodeFails
    \/ OpenFails
    \/ OpenDocument
    \/ PageRaises
    \/ ExtractPage
    \/ FinishDocument
    \/ ReturnContext
    \/ DumpRaises

Spec == Init /\ [][Next]_vars

\* the bucket of a score, in thousandths
BucketOf(score) ==
    IF score >= 1000 THEN "high" ELSE IF score >= 650 THEN "medium" ELSE "low"

SignalsBucketed(signals) ==
    \A i \in 1..Len(signals) : signals[i].significance = BucketOf(signals[i].score)

\* C3: every signal returned for a document and for a request has the
\* significance that is the bucket of its score: high from 1.00, medium from
\* 0.65, low below.
C3_SignificanceIsBucket ==
    /\ doc_output # NoValue => SignalsBucketed(doc_output.signals)
    /\ result # NoValue => SignalsBucketed(result.signals)

\* a request returns a low and a medium signal, and a signal that a merge has
\* lifted from medium to high
C3_Witness ==
    /\ result # NoValue
    /\ \E i, j, k \in 1..Len(result.signals) :
        /\ result.signals[i].significance = "low"
        /\ result.signals[j].significance = "medium"
        /\ result.signals[k].source = "annotation+style"
        /\ result.signals[k].score = 1050

\* the document just returned had three pages, each with the header, body and
\* page counter lines of the example
CourseDocumentDone ==
    /\ pc = "file" /\ page_count = 3 /\ Len(normalized_pages) = 3
    /\ \A k \in 1..3 : page_log[k].native = CourseText(k, 3)

\* C5: for a 3-page document with the header "Course X" and the footer
\* "Page k of 3" on lines of their own on every page, no page text of the
\* output holds the header or the footer, and every body line remains.
C5_HeaderFooterRemoved ==
    CourseDocumentDone =>
        \A k \in 1..3 :
            /\ ~Contains(normalized_pages[k], <<"C", "o", "u", "r", "s", "e", SP, "X">>)
            /\ ~Contains(normalized_pages[k], <<"P", "a", "g", "e">>)
            /\ Contains(normalized_pages[k], <<"B", "o", "d", "y", SP>> \o PageWord(k))

\* the OCR attempt of a logged page gives a non-empty text
OcrGivesText(entry) == entry.ocr.kind = "text" /\ Strip(entry.ocr.text) # <<>>

\* C10: a page has method "ocr" and the normalised OCR text exactly when its
\* native text is flagged and the OCR attempt gives a non-empty text; every
\* other page has method "native" and the normalised native text.
C10_OcrFallback ==
    \A k \in 1..Len(pages) :
        LET entry == page_log[k]
            replaced == _should_ocr_page(entry.native) /\ OcrGivesText(entry)
        IN  /\ replaced <=>
                /\ pages[k].method = "ocr"
                /\ pages[k].text = _normalize_page_text(Strip(entry.ocr.text))
            /\ ~replaced =>
                /\ pages[k].method = "native"
                /\ pages[k].text = _normalize_page_text(entry.native)

\* one document with a page read by OCR, a flagged page whose OCR gave only
\* blanks, and a page that was not flagged
C10_Witness ==
    \E i, j, k \in 1..Len(pages) :
        /\ pages[i].method = "ocr"
        /\ _should_ocr_page(page_log[j].native) /\ page_log[j].ocr.kind = "text"
        /\ pages[j].method = "native"
        /\ ~_should_ocr_page(page_log[k].native)

\* C11: extract_pdf_context never raises to its caller, whatever fails on
\* the way (the decoding, the parser, OCR, the annotations, the opening or
\* the writing of the dump file): a request that has ended has returned a
\* pair of a text and a list of signals.
C11_NeverRaises ==
    /\ pc # "raised"
    /\ pc = "done" => result # NoValue /\ DOMAIN result = {"text", "signals"}

\* the document last handled was opened and its page loop raised
DocumentGivenUp == pc = "file" /\ page_count > 0 /\ Len(pages) < page_count

\* the document last handled was opened and its page loop ran to the end
DocumentExtracted == pc = "file" /\ page_count > 0 /\ Len(pages) = page_count

\* C12: a document yields a complete bundle or an empty one: when a page
\* raises, after any number of extracted pages, the document returns ("", [])
\* with no text and no signal of the pages before; otherwise the returned
\* text has the delimiter of every page of the document.
C12_CompleteOrEmpty ==
    /\ DocumentGivenUp => doc_output = EmptyBundle
    /\ DocumentExtracted =>
        \A k \in 1..page_count : Contains(doc_output.text, PageDelimiter(pages[k]))

\* a document is given up on its third page, after a page with marks and
\* another page were extracted with the feature on
C12_Witness ==
    /\ DocumentGivenUp /\ collect_visual
    /\ Len(page_log) = 3 /\ page_log[3].raised # "no"
    /\ page_log[1].native = ProseText(1) /\ page_log[1].raised = "no"
    /\ doc_output = EmptyBundle

\* the attachments of the log whose extraction did not fail
Extracted(log) == SelectSeq(log, LAMBDA outcome : ~outcome.failed)

RECURSIVE SectionsOf(_, _)
\* the parts that the attachments of a log append, from the i-th on
SectionsOf(log, i) ==
    IF i > Len(log) THEN <<>>
    ELSE (IF log[i].text # <<>>
          THEN <<FileSection(log[i].filename, log[i].text)>> ELSE <<>>)
         \o SectionsOf(log, i + 1)

RECURSIVE SignalsOf(_, _)
\* the signals that the attachments of a log deliver, from the i-th on
SignalsOf(log, i) ==
    IF i > Len(log) THEN <<>> ELSE log[i].signals \o SignalsOf(log, i + 1)

\* what a request of the legacy text and the attachments of a log returns
ContextOf(legacy, log) ==
    [text |-> Join((IF legacy # <<>> THEN <<legacy>> ELSE <<>>) \o SectionsOf(log, 1),
                   <<LF, LF>>),
     signals |-> _merge_visual_signals(SignalsOf(log, 1), MAX_VISUAL_SIGNALS_PER_FILE)]

\* C13: a file that cannot be decoded or whose extraction fails contributes
\* nothing and stops nothing: every attachment of the request is handled, and
\* the returned pair is the one of the request without the failed files,
\* the other files in their attachment order.
C13_FailedFileSkipped ==
    result # NoValue =>
        /\ Len(file_log) = Len(pdf_files)
        /\ \A i \in 1..Len(pdf_files) : file_log[i].filename = pdf_files[i]
        /\ \A i \in 1..Len(file_log) :
            file_log[i].failed => file_log[i].text = <<>> /\ file_log[i].signals = <<>>
        /\ result = ContextOf(pdf_text, Extracted(file_log))

\* a request whose first file fails and whose second file gives text and
\* signals
C13_Witness ==
    /\ result # NoValue /\ Len(file_log) = 2 /\ collect_visual
    /\ file_log[1].failed /\ ~file_log[2].failed
    /\ file_log[2].text # <<>> /\ file_log[2].signals # <<>>

\* the pages that the page loop extracts from the logged sources
PagesOfLog(log) ==
    [k \in 1..Len(log) |-> ExtractedPage(k, log[k].native, log[k].ocr)]

\* the text of a document of the logged sources when the feature is off:
\* only a raising get_text gives the document up
TextWithFeatureOff(log) ==
    IF \E k \in 1..Len(log) : log[k].raised = "get_text" THEN <<>>
    ELSE LET extracted == PagesOfLog(log)
             texts == _remove_repeated_headers_and_footers(
                          [k \in 1..Len(log) |-> extracted[k].text])
         IN  DocumentText(extracted, texts)

\* C14: the feature flag leaves the text unaffected: whatever the flag and
\* whatever the annotation, word and style extraction do, the text returned
\* for a document whose pages have all been read is the text that the same
\* pages give with the feature off.
C14_TextUnaffectedByFlag ==
    (pc = "file" /\ page_count > 0 /\ Len(page_log) = page_count) =>
        doc_output.text = TextWithFeatureOff(page_log)

\* the orders in which a list of n signals can be delivered
DeliveryOrders(n) ==
    {p \in [1..n -> 1..n] : \A i, j \in 1..n : p[i] = p[j] => i = j}

Delivered(signals, p) == [i \in 1..Len(signals) |-> signals[p[i]]]

\* the fields of the signals that the claim compares
Shown(signals) ==
    [i \in 1..Len(signals) |->
        [text |-> signals[i].text, signal_types |-> signals[i].signal_types,
         score |-> signals[i].score, significance |-> signals[i].significance,
         source |-> signals[i].source]]

\* C15: the output of the merge does not depend on the order of discovery:
\* every permutation of the input list gives the same sequence of signals,
\* with the same text, signal_types, score, significance and source.
C15_MergeOrderIndependent ==
    mDone =>
        \A p \in DeliveryOrders(Len(mIn)) :
            Shown(_merge_visual_signals(Delivered(mIn, p), mLimit)) = Shown(mOut)

\* a ranks strictly higher than b: by score descending, then page ascending,
\* then text ascending
Outranks(a, b) ==
    \/ a.score > b.score
    \/ a.score = b.score /\ a.page < b.page
    \/ a.score = b.score /\ a.page = b.page /\ TextLess(a.text, b.text)

\* what the merged signal of a key of the input ranks with: the maximum of
\* the scores, the page of the key, the text of the first input of the key
RankOfKey(signals, key) ==
    LET group == WithKey(signals, key)
        first == CHOOSE i \in group : \A j \in group : i <= j
    IN  [score |-> CHOOSE v \in {signals[i].score : i \in group} :
                       \A i \in group : v >= signals[i].score,
         page |-> key[2],
         text |-> signals[first].text]

\* C16: a merged list is sorted by (score descending, page ascending, text
\* ascending), has at most as many signals as the cap (40 for a document and
\* for a request), and no signal cut by the cap ranks higher than a signal
\* that was kept.
C16_SortedAndCapped ==
    mDone =>
        /\ \A i, j \in 1..Len(mOut) : i < j => ~Outranks(mOut[j], mOut[i])
        /\ Len(mOut) <= mLimit
        /\ \A key \in KeysOf(mIn) \ KeysOf(mOut) :
            \A o \in 1..Len(mOut) : ~Outranks(RankOfKey(mIn, key), mOut[o])

\* three signals of three keys and three scores under a cap of two, the one
\* delivered first being the one that is cut
C16_Witness ==
    /\ mDone /\ mLimit = 2 /\ Len(mOut) = 2
    /\ Cardinality(KeysOf(mIn)) = 3
    /\ Cardinality({mIn[i].score : i \in 1..Len(mIn)}) = 3
    /\ DedupKey(mIn[1]) \notin KeysOf(mOut)

\* how often sub occurs in s
Occurrences(s, sub) ==
    Cardinality({i \in 1..(Len(s) - Len(sub) + 1) : SubSeq(s, i, i + Len(sub) - 1) = sub})

\* what follows the delimiter of page k: its text after denoising, or the
\* placeholder
PageBody(k) ==
    IF normalized_pages[k] # <<>> THEN normalized_pages[k]
    ELSE <<"(", "n", "o", SP, "t", "e", "x", "t", SP,
           "e", "x", "t", "r", "a", "c", "t", "e", "d", ")">>

\* C17: the text of a document of n >= 1 extracted pages has exactly n page
\* delimiters "--- Page k (method) ---", for k = 1..n in ascending order, each
\* followed by the text of that page or, when the text is empty natively or
\* after denoising, by "(no text extracted)": no page is dropped.
C17_EveryPageDelimited ==
    DocumentExtracted =>
        /\ Occurrences(doc_output.text, <<"-", "-", "-", SP, "P", "a", "g", "e", SP>>)
               = page_count
        /\ \A k \in 1..page_count : pages[k].number = k
        /\ doc_output.text =
               Join([k \in 1..page_count |->
                        <<"-", "-", "-", SP, "P", "a", "g", "e", SP, PageDigit(k), SP, "(">>
                        \o MethodText(pages[k].method) \o <<")", SP, "-", "-", "-", LF>>
                        \o PageBody(k)],
                    <<LF>>)

\* a document of three pages whose only line is removed by the denoiser on
\* every page
C17_Witness ==
    /\ DocumentExtracted /\ page_count = 3
    /\ \A k \in 1..3 : pages[k].text # <<>> /\ normalized_pages[k] = <<>>
    /\ Occurrences(doc_output.text, NoTextPlaceholder) = 3

RECURSIVE ClaimedSections(_, _)
\* one section per attachment of the log that yielded text, from the i-th
\* on: the file delimiter on a line of its own, then the text of the file
ClaimedSections(log, i) ==
    IF i > Len(log) THEN <<>>
    ELSE (IF log[i].text # <<>>
          THEN << <<"-", "-", "-", SP, "F", "i", "l", "e", ":", SP>> \o log[i].filename
                  \o <<SP, "-", "-", "-", LF>> \o log[i].text >>
          ELSE <<>>)
         \o ClaimedSections(log, i + 1)

\* C18: combined_text is the legacy text, if there is one, followed by one
\* section per file that yielded text, in attachment order; a section is the
\* line "--- File: <filename> ---" followed on the next line by the text of
\* the file, which starts with the delimiter of its first page.
C18_FileSections ==
    result # NoValue =>
        result.text =
            Join((IF pdf_text # <<>> THEN <<pdf_text>> ELSE <<>>)
                 \o ClaimedSections(file_log, 1), <<LF, LF>>)

\* the base scores of the claim, in thousandths
ClaimedBaseScore ==
    [highlight |-> 1000, underline |-> 900, squiggly |-> 700, strikeout |-> 600,
     bold |-> 450, colored_text |-> 350]

RECURSIVE ClaimedBaseSum(_)
ClaimedBaseSum(types) ==
    IF types = <<>> THEN 0
    ELSE (IF Head(types) \in DOMAIN ClaimedBaseScore
          THEN ClaimedBaseScore[Head(types)] ELSE 200)
         + ClaimedBaseSum(Tail(types))

\* min(1.7, base scores + multi-signal bonus + question boost + short numeric
\* boost), the boosts decided on the text t
ClaimedScore(t, types) ==
    LET total == ClaimedBaseSum(types)
                 + (IF Len(types) > 1 THEN 100 * (Len(types) - 1) ELSE 0)
                 + (IF MatchesQuestionToken(t) THEN 350
                    ELSE IF ContainsQuestionN(t) THEN 250 ELSE 0)
                 + (IF Len(t) <= 12 /\ HasDigit(t) THEN 150 ELSE 0)
    IN  Min2(1700, total)

\* C19 as stated: the score is the capped sum, the boosts decided on the text
\* as it is passed.
C19_Original ==
    scDone => scScore = ClaimedScore(scText, scTypes)

\* C19 amended: the score is the capped sum, the boosts decided on the text
\* without its leading and trailing whitespace.
C19_ScoreOfTrimmedText ==
    scDone => scScore = ClaimedScore(Strip(scText), scTypes)

\* "Q3" followed by blanks, 13 characters long, with an unknown type and
\* bold: 0.20 + 0.45 + 0.10 + 0.35 + 0.15
C19_Witness ==
    /\ scDone /\ scText = PaddedQ3Text /\ scTypes = <<"note", "bold">>
    /\ scScore = 1250

\* the sources of the inputs that collide on the key of a merged signal
SourcesOf(signals, key) == {signals[i].source : i \in WithKey(signals, key)}

\* C20: the source of a merged signal is "annotation+style" when the inputs
\* of its key did not all have the same source, and their common source
\* otherwise; every source is annotation, style or annotation+style.
C20_MergedSource ==
    mDone =>
        \A o \in 1..Len(mOut) :
            LET sources == SourcesOf(mIn, DedupKey(mOut[o]))
            IN  /\ mOut[o].source \in {"annotation", "style", "annotation+style"}
                /\ Cardinality(sources) > 1 => mOut[o].source = "annotation+style"
                /\ Cardinality(sources) = 1 => mOut[o].source \in sources

\* three inputs of one key, the first two from annotations and the third
\* from a style
C20_Witness ==
    /\ mDone /\ Len(mIn) = 3 /\ Len(mOut) = 1
    /\ mIn[1].source = "annotation" /\ mIn[2].source = "annotation"
    /\ mIn[3].source = "style"
    /\ mOut[1].source = "annotation+style"

\* C21: merging a merged list again changes nothing: for every list and
\* limit, the merge of the output with the same limit is the output.
C21_MergeIdempotent ==
    mDone => _merge_visual_signals(mOut, mLimit) = mOut

\* a merge that joined two of three inputs and left two signals that tie in
\* score, page and text
C21_Witness ==
    /\ mDone /\ Len(mIn) = 3 /\ Len(mOut) = 2
    /\ mOut[1].score = mOut[2].score /\ mOut[1].page = mOut[2].page
    /\ mOut[1].text = mOut[2].text
    /\ \E i \in 1..2 : Cardinality(Range(mOut[i].signal_types)) = 2
    /\ _merge_visual_signals(mOut, mLimit) = mOut

\* a signal of page k that comes from an annotation of the given type
HasAnnotationSignal(signals, k, type) ==
    \E i \in 1..Len(signals) :
        /\ signals[i].page = k
        /\ signals[i].source \in {"annotation", "annotation+style"}
        /\ type \in Range(signals[i].signal_types)

\* C22: a malformed annotation is skipped alone: on a page where an
\* annotation raises, the page does not raise, the signals of its other
\* annotations, before and after the malformed one, are produced, its text
\* is emitted, and the pages after it are extracted.
C22_MalformedAnnotationSkipped ==
    \A k \in 1..Len(page_log) :
        page_log[k].malformed =>
            /\ page_log[k].raised = "no"
            /\ pc \in {"page", "finish"} =>
                /\ k <= Len(pages)
                /\ \A type \in {"highlight", "strikeout", "squiggly"} :
                        HasAnnotationSignal(doc_signals, k, type)
            /\ DocumentExtracted =>
                /\ \A type \in {"highlight", "strikeout", "squiggly"} :
                        HasAnnotationSignal(doc_output.signals, k, type)
                /\ Contains(doc_output.text, PageDelimiter(pages[k]) \o <<LF>>
                                             \o normalized_pages[k])
                /\ normalized_pages[k] # <<>>

\* a document of three pages is extracted whose first page has a malformed
\* annotation between others, and whose later pages have none
C22_Witness ==
    /\ DocumentExtracted /\ page_count = 3
    /\ page_log[1].malformed /\ ~page_log[2].malformed /\ ~page_log[3].malformed
    /\ HasAnnotationSignal(doc_output.signals, 1, "squiggly")

\* the non-blank lines of a page, trimmed
TrimmedLines(text) == Range(NonBlankLines(text))

\* C23 as stated: a line whose signature is shorter than 4 or longer than
\* 140 characters is never counted and never flagged.
C23_Original ==
    dDone =>
        \A i \in 1..Len(dPages) : \A ln \in TrimmedLines(dPages[i]) :
            (Len(Signature(ln)) < 4 \/ Len(Signature(ln)) > 140) =>
                /\ \A j \in 1..Len(dPages) : Signature(ln) \notin PagePatterns(dPages[j])
                /\ Signature(ln) \notin RepeatedPatterns(dPages)

\* the signatures that an edge line of 4 to 140 characters carries on some
\* page
CarriedByCandidate(texts) ==
    UNION {{Signature(l) : l \in {e \in EdgeLines(texts[j]) : Len(e) >= 4 /\ Len(e) <= 140}} :
           j \in 1..Len(texts)}

\* C23 amended: the limits of 4 and 140 characters are on the trimmed line,
\* not on its signature: a signature that only lines shorter than 4 or longer
\* than 140 characters carry, and the empty signature, is never counted or
\* flagged, and its lines stay in the output; a line of 4 to 140 characters is
\* counted under its signature however short the signature is.
C23_LineLengthDiscards ==
    dDone =>
        LET carried == CarriedByCandidate(dPages)
            counted == UNION {PagePatterns(dPages[j]) : j \in 1..Len(dPages)}
            flagged == RepeatedPatterns(dPages)
        IN  /\ Len(dOut) = Len(dPages)
            /\ flagged \subseteq counted
            /\ counted = carried \ {<<>>}
            /\ \A i \in 1..Len(dPages) : \A ln \in TrimmedLines(dPages[i]) :
                    Signature(ln) \notin counted => ln \in TrimmedLines(dOut[i])
            /\ \A i \in 1..Len(dPages) : \A ln \in EdgeLines(dPages[i]) :
                    (Len(ln) >= 4 /\ Len(ln) <= 140 /\ Signature(ln) # <<>>) =>
                        Signature(ln) \in PagePatterns(dPages[i])

\* three pages with a page counter and a long running line: the counter's
\* signature of one character is flagged and its lines are gone, the long
\* lines share a signature and stay
C23_Witness ==
    /\ dDone /\ Len(dPages) = 3
    /\ \A i \in 1..3 : dKinds[i] = "counter"
    /\ Signature(PageCounter(1)) = <<"#">>
    /\ <<"#">> \in RepeatedPatterns(dPages)
    /\ \A i \in 1..3 :
        /\ PageCounter(i) \notin TrimmedLines(dOut[i])
        /\ LongLine(i) \in TrimmedLines(dOut[i])
        /\ Signature(LongLine(i)) = Signature(LongLine(1))
        /\ Len(Signature(LongLine(i))) > 140

\* the text a call of the normaliser was given: the page text on the first
\* pass, the first result on the second
NormInput == IF nPass = 2 THEN nPrev ELSE nText

\* the lines the paragraph reconstruction scans, trimmed: the lines of the
\* text with unified line endings and hyphenation breaks removed
ScannedLines(text) ==
    LET ls == SplitLines(Dehyphenate(UnifyLineEndings(text)))
    IN  [i \in 1..Len(ls) |-> Strip(ls[i])]

\* the kinds of structural line of the claim, for a trimmed line
ClaimedStructural(s) ==
    /\ s # <<>>
    /\ \/ Len(s) >= 2 /\ s[1] \in {"-", "*", BULLET} /\ IsSpace(s[2])
       \/ \E k \in 1..(Len(s) - 2) :
            /\ \A i \in 1..k : IsDigit(s[i])
            /\ s[k + 1] \in {".", ")"} /\ IsSpace(s[k + 2])
       \/ s[Len(s)] = ":" /\ Len(s) <= 90
       \/ "|" \in Range(s)
       \/ \E i \in 1..(Len(s) - 1) : IsSpace(s[i]) /\ IsSpace(s[i + 1])
       \/ IsUpperStr(s) /\ Len(s) >= 3 /\ Len(s) <= 80

ClaimedFlow(s) == s # <<>> /\ ~ClaimedStructural(s)

\* line i opens a block: a structural line, or the first line of a maximal
\* run of flow lines
OpensBlock(lines, i) ==
    \/ ClaimedStructural(lines[i])
    \/ ClaimedFlow(lines[i]) /\ (i = 1 \/ ~ClaimedFlow(lines[i - 1]))

\* the output line of the block that line i opens
BlockLine(lines, i) ==
    IF ClaimedStructural(lines[i]) THEN CollapseSpacesTabs(lines[i])
    ELSE LET last == SetMax({j \in i..Len(lines) : \A k \in i..j : ClaimedFlow(lines[k])})
         IN  Join([k \in 1..(last - i + 1) |-> CollapseSpacesTabs(lines[i + k - 1])], <<SP>>)

ClaimedOutputLines(text) ==
    LET lines == ScannedLines(text)
        Opens(i) == OpensBlock(lines, i)
        opens == SelectSeq(Indices(lines), Opens)
    IN  [k \in 1..Len(opens) |-> BlockLine(lines, opens[k])]

\* C24: the non-blank lines of the result are, in order, one line for every
\* maximal run of consecutive flow lines, its parts joined by single spaces,
\* and one line for every structural line, which is never merged with a
\* neighbour (the lines are those the paragraph reconstruction scans).
C24_FlowJoinedStructuralKept ==
    nPass >= 1 =>
        SelectSeq(SplitLines(nOut), NonBlank) = ClaimedOutputLines(NormInput)

\* a page where two flow lines are followed by a structural line and a flow
\* line: three output lines, the first with a joining space
C24_Witness ==
    /\ nPass = 1
    /\ LET lines == ScannedLines(nText)
       IN  /\ Len(lines) = 3 \/ Len(lines) = 4
           /\ ClaimedFlow(lines[1]) /\ ClaimedFlow(lines[2])
           /\ ClaimedStructural(lines[3])
           /\ SplitLines(nOut)[1] = lines[1] \o <<SP>> \o lines[2]
           /\ SplitLines(nOut)[2] = lines[3]

\* the positions of the hyphens of a text with unified line endings that
\* stand between a word character and a line break followed by a word
\* character
HyphenBreaks(u) ==
    {i \in 2..(Len(u) - 2) :
        /\ u[i] = "-" /\ u[i + 1] = LF
        /\ IsWordChar(u[i - 1]) /\ IsWordChar(u[i + 2])}

HyphenCount(s) == Cardinality({i \in 1..Len(s) : s[i] = "-"})

\* the text without those hyphens and their line breaks
ClaimedRejoined(u) ==
    LET breaks == HyphenBreaks(u)
        Kept(i) == i \notin breaks /\ (i - 1) \notin breaks
        idx == SelectSeq(Indices(u), Kept)
    IN  [j \in 1..Len(idx) |-> u[idx[j]]]

\* C25: every hyphen before a line break (LF, CR or CR LF) with a word
\* character directly before it and directly after the line break is deleted
\* with the line break, the halves joined with nothing between them; every
\* other hyphen is kept.
C25_HyphenBreaksRejoined ==
    nPass >= 1 =>
        LET u == UnifyLineEndings(NormInput)
        IN  /\ NormInput # <<>> =>
                nOut = Strip(_unwrap_hard_line_breaks(ClaimedRejoined(u)))
            /\ HyphenCount(nOut) = HyphenCount(NormInput) - Cardinality(HyphenBreaks(u))

\* a bullet line whose last word is broken before a CR LF: the halves are
\* joined, the bullet's hyphen stays
C25_Witness ==
    /\ nPass = 1
    /\ nText = <<"-", SP, "a", "b", "-", CR, LF, "a", "b", CR, LF, "_", "b">>
    /\ nOut = <<"-", SP, "a", "b", "a", "b", LF, "_", "b">>

\* _should_ocr_page without its alphanumeric-ratio guard
ShouldOcrWithoutAlnumGuard(native_text) ==
    LET metrics == _compute_text_quality(native_text)
    IN  \/ metrics.chars < MIN_NATIVE_TEXT_CHARS
        \/ metrics.words < MIN_NATIVE_WORDS
        \/ 100 * metrics.symbol_num > MAX_SYMBOL_RATIO_PCT * metrics.ratio_den

AlnumGuardFires(native_text) ==
    LET metrics == _compute_text_quality(native_text)
    IN  100 * metrics.alnum_num < MIN_ALNUM_RATIO_PCT * metrics.ratio_den

\* C30: for a text with a non-whitespace character the alphanumeric count and
\* the symbol count add up to the non-whitespace count, and the result of
\* _should_ocr_page is the result without the alphanumeric-ratio guard.
C30_AlnumGuardRedundant ==
    qDone =>
        LET metrics == _compute_text_quality(qText)
        IN  /\ NonWhitespaceCount(qText) > 0 =>
                /\ metrics.ratio_den = NonWhitespaceCount(qText)
                /\ metrics.alnum_num + metrics.symbol_num = NonWhitespaceCount(qText)
            /\ qResult = ShouldOcrWithoutAlnumGuard(qText)

\* a text with enough characters and words on which the alphanumeric-ratio
\* guard fires
C30_Witness ==
    /\ qDone /\ qResult
    /\ _compute_text_quality(qText).chars >= MIN_NATIVE_TEXT_CHARS
    /\ _compute_text_quality(qText).words >= MIN_NATIVE_WORDS
    /\ AlnumGuardFires(qText)

------------------------------------------------------------------------------
(* SpecVisual: the text recovery under an annotation rectangle and the       *)
(* style path, each applied to one input.                                    *)

\* a word box as _extract_words_for_page gives it
WordBox(x0, y0, x1, y1, text) ==
    [rect |-> Rect(x0, y0, x1, y1), text |-> text, sort_y |-> y0, sort_x |-> x0]

MaxRowWords == 25

\* The word lists of a page: none; three words listed out of reading order;
\* a word without area and two words with one sort key; a row of words
\* longer than a signal text may be.
VisualWordLists ==
    { <<>>,
      << WordBox(5, 0, 10, 10, <<"i", "s">>), WordBox(0, 10, 5, 20, <<"x", "1">>),
         WordBox(0, 0, 5, 10, <<"Q", "3">>) >>,
      << WordBox(0, 0, 0, 10, <<"n", "o">>), WordBox(0, 0, 5, 10, <<"b">>),
         WordBox(0, 0, 5, 10, <<"a">>) >>,
      [i \in 1..MaxRowWords |->
          WordBox(5 * (i - 1), 0, 5 * i, 10, <<"a", "b", "c", "d", "e", "f">>)] }

VisualRects ==
    {Rect(x0, 0, x1, y1) : x0 \in {0, 4, 5}, x1 \in {1, 5, 6, 10, 125}, y1 \in {1, 2, 10, 20}}

VisualTextboxes == {<<>>, <<SP, "N", "o", "t", "e", LF>>}

MaxSpans == 2

\* span texts: empty, question tokens, a text with "question N", a text
\* without a digit, texts of 24 and of 25 characters that end in a digit, and
\* a text whose "question 2" lies behind the cut of a signal text
StyleTexts ==
    { <<>>, <<"q", "3">>, <<SP, "X", "1", SP>>,
      <<"Q","u","e","s","t","i","o","n", SP, "2">>,
      <<"s","e","e", SP, "q","u","e","s","t","i","o","n", SP, "2", SP, "n","o","w">>,
      <<"I", "n", "t", "r", "o">>,
      [i \in 1..23 |-> "a"] \o <<"1">>,
      [i \in 1..24 |-> "a"] \o <<"1">>,
      [i \in 1..135 |-> "x"] \o <<SP, "q","u","e","s","t","i","o","n", SP, "2">> }

\* flags and colour of a span: plain, bold, italic and coloured, bold italic
\* and coloured
StyleMarks == {<<0, 0>>, <<16, 0>>, <<4, 255>>, <<20, 255>>}
StyleSpans == {Span(t, fc[1], fc[2]) : t \in StyleTexts, fc \in StyleMarks}

VisualInit ==
    /\ vIn \in {[kind |-> "rect", rect |-> r, textbox |-> tb, words |-> ws] :
                    r \in VisualRects, tb \in VisualTextboxes, ws \in VisualWordLists}
               \cup {[kind |-> "style", spans |-> sp] : sp \in SeqsUpTo(StyleSpans, MaxSpans)}
    /\ vOut = NoValue
    /\ vDone = FALSE
    /\ NormIdle /\ OcrIdle /\ ScoreIdle /\ MergeIdle /\ DenoiseIdle /\ PipeIdle
    /\ RunIdle /\ StreamIdle

\* one call of _collect_text_in_rect
CollectTextInRect ==
    /\ ~vDone /\ vIn.kind = "rect"
    /\ vOut' = _collect_text_in_rect(vIn.rect, vIn.textbox, vIn.words)
    /\ vDone' = TRUE
    /\ UNCHANGED <<vIn, normVars, ocrVars, scoreVars, mergeVars, denoiseVars, pipeVars,
                   runVars, streamVars>>

\* one call of _extract_visual_signals_from_styles on page 1 of a file
ExtractStyleSignals ==
    /\ ~vDone /\ vIn.kind = "style"
    /\ vOut' = _extract_visual_signals_from_styles([BlankPage EXCEPT !.spans = vIn.spans],
                                                   <<"a", ".", "p", "d", "f">>, 1)
    /\ vDone' = TRUE
    /\ UNCHANGED <<vIn, normVars, ocrVars, scoreVars, mergeVars, denoiseVars, pipeVars,
                   runVars, streamVars>>

VisualNext == CollectTextInRect \/ ExtractStyleSignals
SpecVisual == VisualInit /\ [][VisualNext]_vars

\* the area of a rectangle, and the area two rectangles share
AreaOf(r) == IF r.x1 > r.x0 /\ r.y1 > r.y0 THEN (r.x1 - r.x0) * (r.y1 - r.y0) ELSE 0
SharedArea(a, b) ==
    AreaOf(Rect(SetMax({a.x0, b.x0}), SetMax({a.y0, b.y0}),
                SetMin({a.x1, b.x1}), SetMin({a.y1, b.y1})))

\* the words whose shared area with the rectangle is at least 0.20 of their own
WordsInRect(rect, words) ==
    {i \in 1..Len(words) :
        /\ AreaOf(words[i].rect) > 0
        /\ 100 * SharedArea(rect, words[i].rect) >= 20 * AreaOf(words[i].rect)}

\* their texts in (y, x) order, words with one key in the order of the list
TextsInReadingOrder(rect, words) ==
    LET sel == WordsInRect(rect, words)
        Before(j, i) ==
            \/ words[j].sort_y < words[i].sort_y
            \/ words[j].sort_y = words[i].sort_y /\ words[j].sort_x < words[i].sort_x
            \/ words[j].sort_y = words[i].sort_y /\ words[j].sort_x = words[i].sort_x /\ j < i
        RankOf(i) == Cardinality({j \in sel : Before(j, i)}) + 1
    IN  [k \in 1..Cardinality(sel) |-> words[CHOOSE i \in sel : RankOf(i) = k].text]

\* C26 as stated: the result is the texts of the selected words joined by
\* single spaces in (y, x) order, and the text box of the rectangle is used
\* exactly when no word is selected.
C26_Original ==
    (vDone /\ vIn.kind = "rect") =>
        IF WordsInRect(vIn.rect, vIn.words) # {}
        THEN vOut = Join(TextsInReadingOrder(vIn.rect, vIn.words), <<SP>>)
        ELSE vOut = Strip(CollapseWhitespace(vIn.textbox))

\* a signal text: cut to 139 characters and an ellipsis when longer than 140
CutToSignalText(t) ==
    IF Len(t) > 140 THEN RStrip(SubSeq(t, 1, 139)) \o <<ELLIPSIS>> ELSE t

\* C26 amended: the result is the texts of the selected words joined by
\* single spaces in (y, x) order, cut to 139 characters and an ellipsis when
\* the joined text is longer than 140 characters; the text box of the
\* rectangle, whitespace-collapsed and cut the same way, is used exactly when
\* no word is selected.
C26_SelectedWordsCut ==
    (vDone /\ vIn.kind = "rect") =>
        IF WordsInRect(vIn.rect, vIn.words) # {}
        THEN vOut = CutToSignalText(Join(TextsInReadingOrder(vIn.rect, vIn.words), <<SP>>))
        ELSE vOut = CutToSignalText(Strip(CollapseWhitespace(vIn.textbox)))

\* a rectangle over the whole row of words: the joined text is cut
C26_Witness ==
    /\ vDone /\ vIn.kind = "rect"
    /\ Cardinality(WordsInRect(vIn.rect, vIn.words)) = MaxRowWords
    /\ Len(vOut) = 140 /\ vOut[140] = ELLIPSIS

\* the signal types the claim gives a span
ClaimedStyleTypes(span) ==
    {t \in {"bold", "colored_text"} :
        \/ t = "bold" /\ (span.flags \div 16) % 2 = 1
        \/ t = "colored_text" /\ span.color # 0}

\* the text filter of the claim
ClaimedTextFilter(text) ==
    \/ MatchesQuestionToken(text)
    \/ ContainsQuestionN(text)
    \/ Len(text) <= 24 /\ \E i \in 1..Len(text) : text[i] \in Digits

ProducesSignal(span) ==
    /\ _normalize_visual_text(span.text) # <<>>
    /\ ClaimedStyleTypes(span) # {}
    /\ ClaimedTextFilter(_normalize_visual_text(span.text))

\* C27: every signal of the style path has the source "style", one or both of
\* bold and colored_text as the span's flags and colour say, and a text that
\* passes the filter; the signals are those of the styled spans that pass the
\* filter, in order, and no other span gives one.
C27_StyleSignalsFiltered ==
    (vDone /\ vIn.kind = "style") =>
        LET producing == SelectSeq(vIn.spans, ProducesSignal)
        IN  /\ \A i \in 1..Len(vOut) :
                /\ vOut[i].source = "style"
                /\ Range(vOut[i].signal_types) # {}
                /\ Range(vOut[i].signal_types) \subseteq {"bold", "colored_text"}
                /\ ClaimedTextFilter(vOut[i].text)
            /\ Len(vOut) = Len(producing)
            /\ \A i \in 1..Len(vOut) :
                /\ vOut[i].text = _normalize_visual_text(producing[i].text)
                /\ Range(vOut[i].signal_types) = ClaimedStyleTypes(producing[i])

\* a bold span of 25 characters with a digit gives nothing, a bold coloured
\* question token after it gives the one signal
C27_Witness ==
    /\ vDone /\ vIn.kind = "style"
    /\ Len(vIn.spans) = 2 /\ Len(vOut) = 1
    /\ Len(vIn.spans[1].text) = 25 /\ vIn.spans[1].flags = 16
    /\ vIn.spans[2] = Span(<<"q", "3">>, 20, 255)
    /\ vOut[1].signal_types = <<"bold", "colored_text">>

------------------------------------------------------------------------------
(* SpecRun: stream_run_agent_workflow on one request. The generator runs     *)
(* from one yield to the next; extract_pdf_context and the markdown stream   *)
(* of the agent return or raise. An event is its name and its data without   *)
(* the progress figure and the status message.                               *)

MaxRunDeltas == 3

\* the backtick and the double quote
BACKTICK == "U+0060"
QUOTE == "U+0022"
Fence == <<BACKTICK, BACKTICK, BACKTICK>>
MarkdownWord == <<"m", "a", "r", "k", "d", "o", "w", "n">>
GuideKey == <<QUOTE, "g","u","i","d","e","M","a","r","k","d","o","w","n", QUOTE>>
JsonOpen == <<"{">> \o GuideKey \o <<":", QUOTE>>
JsonClose == <<QUOTE, "}">>

\* what the agent's stream yields: nothing, a blank, a letter, a code fence,
\* the word after a fence, the two halves of a JSON wrapper
RunDeltas == {<<>>, <<SP>>, <<"x">>, Fence, MarkdownWord, JsonOpen, JsonClose}

HasSuffix(s, suf) == Len(s) >= Len(suf) /\ SubSeq(s, Len(s) - Len(suf) + 1, Len(s)) = suf

\* json.loads(cleaned) gives an object with a string under "guideMarkdown":
\* the wrapper around a value without quotes, backslashes or raw line
\* breaks (a raw control character inside a JSON string is a parse error)
IsGuideJson(cleaned) ==
    /\ HasPrefix(cleaned, JsonOpen) /\ HasSuffix(cleaned, JsonClose)
    /\ Len(cleaned) >= Len(JsonOpen) + Len(JsonClose)
    /\ \A i \in (Len(JsonOpen) + 1)..(Len(cleaned) - Len(JsonClose)) : cleaned[i] \notin {QUOTE, LF, "\\"}
GuideValue(cleaned) == SubSeq(cleaned, Len(JsonOpen) + 1, Len(cleaned) - Len(JsonClose))

_normalize_markdown_output(text) ==
    LET stripped == Strip(text)
        unwrapped == IF /\ HasPrefix(stripped, <<"{">>)
                        /\ Contains(stripped, GuideKey)
                        /\ IsGuideJson(stripped)
                     THEN Strip(GuideValue(stripped)) ELSE stripped
        inner == Strip(StripSet(unwrapped, {BACKTICK}))
    IN  IF stripped = <<>> THEN <<>>
        ELSE IF HasPrefix(unwrapped, Fence) /\ HasSuffix(unwrapped, Fence)
        THEN IF HasPrefix(Lower(inner), MarkdownWord)
             THEN Strip(DropPrefix(inner, Len(MarkdownWord))) ELSE inner
        ELSE unwrapped

\* the required fields of RunAgentResponse; model_validate raises when one
\* of them is missing from the data
RunAgentResponseFields ==
    {"description", "keyRequirements", "deliverables", "milestones", "studyPlan", "risks"}
model_validate(fields) == RunAgentResponseFields \subseteq fields

_build_event(event, data) == [event |-> event, data |-> data]
StageEvent(stage) == _build_event("run.stage", [stage |-> stage])
DeltaEvent(delta, chunks) ==
    _build_event("run.delta",
                 [stage |-> "streaming_output", delta |-> delta,
                  chunk_index |-> Len(chunks),
                  accumulated_chars |-> Len(Join(chunks, <<>>))])

RunInit ==
    /\ rPc = "started"
    /\ rEvents = <<>>
    /\ rChunks = <<>>
    /\ rGuide = <<>>
    /\ rExc = ""
    /\ NormIdle /\ OcrIdle /\ ScoreIdle /\ MergeIdle /\ DenoiseIdle /\ PipeIdle
    /\ VisualIdle /\ StreamIdle

otherThanRun ==
    <<normVars, ocrVars, scoreVars, mergeVars, denoiseVars, pipeVars, visualVars, streamVars>>

YieldStarted ==
    /\ rPc = "started"
    /\ rEvents' = Append(rEvents, _build_event("run.started", [stage |-> "queued"]))
    /\ rPc' = "preparing_payload"
    /\ UNCHANGED <<rChunks, rGuide, rExc, otherThanRun>>

YieldPreparingPayload ==
    /\ rPc = "preparing_payload"
    /\ rEvents' = Append(rEvents, StageEvent("preparing_payload"))
    /\ rPc' = "extracting_pdf"
    /\ UNCHANGED <<rChunks, rGuide, rExc, otherThanRun>>

YieldExtractingPdf ==
    /\ rPc = "extracting_pdf"
    /\ rEvents' = Append(rEvents, StageEvent("extracting_pdf"))
    /\ rPc' = "extract"
    /\ UNCHANGED <<rChunks, rGuide, rExc, otherThanRun>>

\* extract_pdf_context returns
ExtractContext ==
    /\ rPc = "extract"
    /\ rPc' = "calling_agent"
    /\ UNCHANGED <<rEvents, rChunks, rGuide, rExc, otherThanRun>>

\* extract_pdf_context raises
ExtractRaises ==
    /\ rPc = "extract"
    /\ rExc' = "extract_pdf_context"
    /\ rPc' = "failed"
    /\ UNCHANGED <<rEvents, rChunks, rGuide, otherThanRun>>

YieldCallingAgent ==
    /\ rPc = "calling_agent"
    /\ rEvents' = Append(rEvents, StageEvent("calling_agent"))
    /\ rChunks' = <<>>
    /\ rPc' = "agent"
    /\ UNCHANGED <<rGuide, rExc, otherThanRun>>

\* the agent's stream yields a delta: an empty one is passed over
AgentYields ==
    /\ rPc = "agent"
    /\ Len(rChunks) < MaxRunDeltas
    /\ \E delta \in RunDeltas :
        IF delta = <<>> THEN UNCHANGED <<rChunks, rEvents>>
        ELSE /\ rChunks' = Append(rChunks, delta)
             /\ rEvents' = Append(rEvents, DeltaEvent(delta, rChunks'))
    /\ UNCHANGED <<rPc, rGuide, rExc, otherThanRun>>

\* a variant in which no except clause catches the stream's exception
AgentRaisesUncaught ==
    /\ rPc = "agent"
    /\ rExc' = "stream_headstart_agent_markdown"
    /\ rPc' = "done"
    /\ UNCHANGED <<rEvents, rChunks, rGuide, otherThanRun>>

\* the agent's stream raises
AgentRaises ==
    /\ rPc = "agent"
    /\ rExc' = "stream_headstart_agent_markdown"
    /\ rPc' = "failed"
    /\ UNCHANGED <<rEvents, rChunks, rGuide, otherThanRun>>

\* the agent's stream ends: the guide is taken from the chunks
AgentEnds ==
    /\ rPc = "agent"
    /\ LET guide_markdown == _normalize_markdown_output(Join(rChunks, <<>>))
       IN  IF guide_markdown = <<>>
           THEN /\ rExc' = "Model returned empty guide markdown."
                /\ rPc' = "failed"
                /\ UNCHANGED rGuide
           ELSE /\ rGuide' = guide_markdown
                /\ rPc' = "validating_output"
                /\ UNCHANGED rExc
    /\ UNCHANGED <<rEvents, rChunks, otherThanRun>>

YieldValidatingOutput ==
    /\ rPc = "validating_output"
    /\ rEvents' = Append(rEvents, StageEvent("validating_output"))
    /\ rPc' = "validate"
    /\ UNCHANGED <<rChunks, rGuide, rExc, otherThanRun>>

\* RunAgentResponse.model_validate({"guideMarkdown": ...}) and the yield of
\* run.completed
ValidateAndComplete ==
    /\ rPc = "validate"
    /\ IF model_validate({"guideMarkdown"})
       THEN /\ rEvents' = Append(rEvents,
                                 _build_event("run.completed",
                                              [guideMarkdown |-> rGuide, stage |-> "completed"]))
            /\ rPc' = "done"
            /\ UNCHANGED rExc
       ELSE /\ rExc' = "ValidationError"
            /\ rPc' = "failed"
            /\ UNCHANGED rEvents
    /\ UNCHANGED <<rChunks, rGuide, otherThanRun>>

\* the except clause
YieldError ==
    /\ rPc = "failed"
    /\ rEvents' = Append(rEvents,
                         _build_event("run.error", [stage |-> "failed", message |-> rExc]))
    /\ rPc' = "done"
    /\ UNCHANGED <<rChunks, rGuide, rExc, otherThanRun>>

RunNext ==
    \/ YieldStarted \/ YieldPreparingPayload \/ YieldExtractingPdf
    \/ ExtractContext \/ ExtractRaises \/ YieldCallingAgent
    \/ AgentYields \/ AgentRaises \/ AgentEnds
    \/ YieldValidatingOutput \/ ValidateAndComplete \/ YieldError
SpecRun == RunInit /\ [][RunNext]_vars

TerminalEvents == {"run.completed", "run.error"}
IsStage(e, stage) == e.event = "run.stage" /\ e.data.stage = stage
DeltasUpTo(events, i) == Cardinality({j \in 1..i : events[j].event = "run.delta"})

\* C28: the first event is run.started; a terminal event is the last event
\* and ends the run, and a run that has ended has one: run.completed when no
\* step raised, run.error when one did; every run.delta comes after the
\* calling_agent stage event and before the validating_output one, and the
\* chunk_index counts the deltas from 1.
C28_EventOrder ==
    LET n == Len(rEvents)
    IN  /\ rPc # "started" => n >= 1
        /\ n >= 1 => rEvents[1].event = "run.started"
        /\ \A i \in 1..n : rEvents[i].event \in TerminalEvents => (i = n /\ rPc = "done")
        /\ rPc = "done" =>
            /\ n >= 1 /\ rEvents[n].event \in TerminalEvents
            /\ rEvents[n].event = "run.completed" <=> rExc = ""
            /\ rEvents[n].event = "run.error" <=> rExc # ""
        /\ \A i \in 1..n : rEvents[i].event = "run.delta" =>
            /\ \E j \in 1..(i - 1) : IsStage(rEvents[j], "calling_agent")
            /\ \A k \in 1..n : IsStage(rEvents[k], "validating_output") => i < k
            /\ rEvents[i].data.chunk_index = DeltasUpTo(rEvents, i)

\* a run that yielded two deltas and the validating_output stage and ended
\* with run.error
C28_Witness ==
    /\ rPc = "done" /\ Len(rEvents) = 8
    /\ rEvents[8].event = "run.error"
    /\ rEvents[5].event = "run.delta" /\ rEvents[5].data.chunk_index = 1
    /\ rEvents[6].event = "run.delta" /\ rEvents[6].data.chunk_index = 2
    /\ IsStage(rEvents[7], "validating_output")

(***************************************************************************)
(* SpecStream: stream_headstart_agent_markdown on one request. The         *)
(* generator first relays the provider's stream and, when nothing was      *)
(* streamed, calls the chain once and yields the result in pieces. The     *)
(* provider is the environment: it hands out message chunks, ends its      *)
(* stream or raises; the single invoke returns a message or raises.        *)
(***************************************************************************)
MaxProviderChunks == 3
chunk_size == 900

\* a message of the provider; _to_text reads the string under content
Message(content) == [content |-> content]
_to_text(x) == x.content

ProviderChunks == {Message(<<>>), Message(<<"a">>), Message(<<"a", "b">>), Message(<<"b">>)}

TextDictOpen == <<"{", "'", "t", "y", "p", "e", "'", ":", SP, "'", "t", "e", "x", "t", "'", ",", SP, "'", "t", "e", "x", "t", "'", ":", SP, "'">>
TextDictClose == <<"'", "}">>
LongMarkdown(n) == [i \in 1..n |-> "x"]
InvokeResults ==
    { Message(<<>>), Message(<<SP>>), Message(<<"a", "b">>),
      Message(Fence \o <<"m", "d", LF, "a", "b", LF>> \o Fence),
      Message(Fence \o Fence),
      Message(JsonOpen \o <<"a", "b">> \o JsonClose),
      Message(TextDictOpen \o <<"a", "b">> \o TextDictClose),
      Message(LongMarkdown(chunk_size)),
      Message(LongMarkdown(chunk_size + 1)),
      Message(LongMarkdown(2 * chunk_size + 1)) }

\* ast.literal_eval(s) gives a dict with a string under "text": the wrapper
\* {'type': 'text', 'text': '...'} around a value without single quotes,
\* backslashes or line breaks
IsTextDict(s) ==
    /\ HasPrefix(s, TextDictOpen) /\ HasSuffix(s, TextDictClose)
    /\ Len(s) >= Len(TextDictOpen) + Len(TextDictClose)
    /\ \A i \in (Len(TextDictOpen) + 1)..(Len(s) - Len(TextDictClose)) :
        s[i] \notin {"'", LF, CR, "\\"}

_maybe_unwrap_text_dict(text) ==
    LET s == Strip(text)
    IN  IF text # <<>> /\ IsTextDict(s)
        THEN SubSeq(s, Len(TextDictOpen) + 1, Len(s) - Len(TextDictClose))
        ELSE text

_strip_markdown_fences(text) ==
    LET stripped == Strip(text)
        opened == DropPrefix(stripped, Len(Fence))
        tagged == IF HasPrefix(Lower(opened), MarkdownWord)
                  THEN DropPrefix(opened, Len(MarkdownWord))
                  ELSE IF HasPrefix(Lower(opened), <<"m", "d">>)
                  THEN DropPrefix(opened, 2) ELSE opened
        body == LStrip(tagged)
        closed == IF HasSuffix(body, Fence)
                  THEN RStrip(SubSeq(body, 1, Len(body) - Len(Fence))) ELSE body
    IN  IF HasPrefix(stripped, Fence) /\ HasSuffix(stripped, Fence)
        THEN Strip(closed) ELSE stripped

\* text.rfind(c) as a position from 1, 0 when c is absent
LastIndexOf(s, c) ==
    IF \E i \in 1..Len(s) : s[i] = c
    THEN CHOOSE i \in 1..Len(s) : s[i] = c /\ \A j \in (i + 1)..Len(s) : s[j] # c
    ELSE 0

\* the repair heuristics on a text that json.loads rejected: single quotes
\* become double quotes and control characters are removed
RepairJson(raw) ==
    LET IsKept(c) == c \notin {LF, CR, TAB}
    IN  [i \in 1..Len(SelectSeq(raw, IsKept)) |->
            IF SelectSeq(raw, IsKept)[i] = "'" THEN QUOTE ELSE SelectSeq(raw, IsKept)[i]]

\* _try_parse_json on a text that starts with "{": the object runs up to the
\* last "}"; the result is the string under "guideMarkdown", NoGuide when
\* the text has no object or cannot be parsed even after repair
NoGuide == <<"no guideMarkdown">>
_try_parse_json(text) ==
    LET raw == SubSeq(text, 1, LastIndexOf(text, "}"))
    IN  IF LastIndexOf(text, "}") = 0 THEN NoGuide
        ELSE IF IsGuideJson(raw) THEN GuideValue(raw)
        ELSE IF IsGuideJson(RepairJson(raw)) THEN GuideValue(RepairJson(raw))
        ELSE NoGuide

_extract_markdown_payload(text) ==
    LET cleaned == _strip_markdown_fences(Strip(_maybe_unwrap_text_dict(text)))
    IN  IF cleaned = <<>> THEN <<>>
        ELSE IF /\ HasPrefix(cleaned, <<"{">>)
                /\ Contains(cleaned, GuideKey)
                /\ _try_parse_json(cleaned) # NoGuide
        THEN _strip_markdown_fences(_try_parse_json(cleaned))
        ELSE cleaned

\* what the generator yields, with the call it came from
Yielded(origin, text) == [origin |-> origin, text |-> text]

StreamInit ==
    /\ sPc = "start"
    /\ sYielded = <<>>
    /\ sStreamed = <<>>
    /\ sHas = FALSE
    /\ sReceived = 0
    /\ sMarkdown = <<>>
    /\ sStart = 0
    /\ NormIdle /\ OcrIdle /\ ScoreIdle /\ MergeIdle /\ DenoiseIdle /\ PipeIdle
    /\ VisualIdle /\ RunIdle

otherThanStream ==
    <<normVars, ocrVars, scoreVars, mergeVars, denoiseVars, pipeVars, visualVars, runVars>>

\* NVIDIA_API_KEY is not set: RuntimeError before anything is yielded
KeyMissing ==
    /\ sPc = "start"
    /\ sPc' = "failed"
    /\ UNCHANGED <<sYielded, sStreamed, sHas, sReceived, sMarkdown, sStart, otherThanStream>>

\* the chain has a callable stream: the provider stream is opened
StartStreaming ==
    /\ sPc = "start"
    /\ sPc' = "streaming"
    /\ UNCHANGED <<sYielded, sStreamed, sHas, sReceived, sMarkdown, sStart, otherThanStream>>

\* the chain has no callable stream: the loop is skipped
NoStreamMethod ==
    /\ sPc = "start"
    /\ sPc' = "after_stream"
    /\ UNCHANGED <<sYielded, sStreamed, sHas, sReceived, sMarkdown, sStart, otherThanStream>>

\* one chunk of the provider stream: an empty chunk and an empty delta are
\* skipped; a chunk that repeats the text so far is cut to its new part
ProviderChunk ==
    /\ sPc = "streaming"
    /\ sReceived < MaxProviderChunks
    /\ \E chunk \in ProviderChunks :
        LET chunk_text == _to_text(chunk)
            delta == IF HasPrefix(chunk_text, sStreamed)
                     THEN DropPrefix(chunk_text, Len(sStreamed))
                     ELSE chunk_text
        IN  IF chunk_text = <<>> \/ delta = <<>>
            THEN UNCHANGED <<sYielded, sStreamed, sHas>>
            ELSE /\ sStreamed' = sStreamed \o delta
                 /\ sHas' = TRUE
                 /\ sYielded' = Append(sYielded, Yielded("provider", delta))
    /\ sReceived' = sReceived + 1
    /\ UNCHANGED <<sPc, sMarkdown, sStart, otherThanStream>>

\* the provider stream raises (at its opening or between two chunks): the
\* except clause clears the flag and the text streamed so far
ProviderRaises ==
    /\ sPc = "streaming"
    /\ sHas' = FALSE
    /\ sStreamed' = <<>>
    /\ sPc' = "after_stream"
    /\ UNCHANGED <<sYielded, sReceived, sMarkdown, sStart, otherThanStream>>

\* the provider stream is exhausted
ProviderEnds ==
    /\ sPc = "streaming"
    /\ sPc' = "after_stream"
    /\ UNCHANGED <<sYielded, sStreamed, sHas, sReceived, sMarkdown, sStart, otherThanStream>>

\* if has_streamed_content: return
ReturnAfterStream ==
    /\ sPc = "after_stream"
    /\ sHas
    /\ sPc' = "done"
    /\ UNCHANGED <<sYielded, sStreamed, sHas, sReceived, sMarkdown, sStart, otherThanStream>>

\* the single invoke returns; an empty payload is a RuntimeError
InvokeFallback ==
    /\ sPc = "after_stream"
    /\ ~sHas
    /\ \E invoked \in InvokeResults :
        LET markdown == _extract_markdown_payload(_to_text(invoked))
        IN  IF markdown = <<>>
            THEN /\ sPc' = "failed"
                 /\ UNCHANGED sMarkdown
            ELSE /\ sPc' = "yielding"
                 /\ sMarkdown' = markdown
    /\ sStart' = 0
    /\ UNCHANGED <<sYielded, sStreamed, sHas, sReceived, otherThanStream>>

\* the single invoke raises
InvokeRaises ==
    /\ sPc = "after_stream"
    /\ ~sHas
    /\ sPc' = "failed"
    /\ UNCHANGED <<sYielded, sStreamed, sHas, sReceived, sMarkdown, sStart, otherThanStream>>

\* one pass of the loop over range(0, len(markdown), chunk_size)
YieldFallbackChunk ==
    /\ sPc = "yielding"
    /\ sStart < Len(sMarkdown)
    /\ sYielded' = Append(sYielded,
            Yielded("fallback", SubSeq(sMarkdown, sStart + 1, Min2(sStart + chunk_size, Len(sMarkdown)))))
    /\ sStart' = sStart + chunk_size
    /\ UNCHANGED <<sPc, sStreamed, sHas, sReceived, sMarkdown, otherThanStream>>

FallbackEnds ==
    /\ sPc = "yielding"
    /\ sStart >= Len(sMarkdown)
    /\ sPc' = "done"
    /\ UNCHANGED <<sYielded, sStreamed, sHas, sReceived, sMarkdown, sStart, otherThanStream>>

StreamNext ==
    \/ KeyMissing
    \/ StartStreaming
    \/ NoStreamMethod
    \/ ProviderChunk
    \/ ProviderRaises
    \/ ProviderEnds
    \/ ReturnAfterStream
    \/ InvokeFallback
    \/ InvokeRaises
    \/ YieldFallbackChunk
    \/ FallbackEnds

SpecStream == StreamInit /\ [][StreamNext]_vars

\* C29: the texts yielded in one run come from the provider stream or from
\* the single-invoke fallback, never from both: once a provider delta has
\* been yielded, no fallback chunk is yielded in the same run.
C29_OneSourcePerRun ==
    ~ \E i \in 1..Len(sYielded) : \E j \in 1..Len(sYielded) :
        /\ sYielded[i].origin = "provider"
        /\ sYielded[j].origin = "fallback"

====
